---------------------------- MODULE Spec2Model ----------------------------
(***************************************************************************)
(* DeadCredentials as a state machine: the password scoring engine of      *)
(* lib/passwordAnalyzer.ts, the check-password route with its rate         *)
(* limiter, the single-password page and the batch processor.  A password  *)
(* is the sequence of its UTF-16 code units (what split("") and indexing   *)
(* give), each a one-character string.  An optional value is the empty set *)
(* or a one-element set.  Times are milliseconds of Date.now(), counted    *)
(* from the construction of the rate limiter.                              *)
(***************************************************************************)
EXTENDS Integers, Sequences, FiniteSets, TLC

VARIABLES
    password,         \* the string handed to the analyzer
    characteristics,  \* {} before analyzePassword returns, {result} after
    segments,         \* {} before analyzePasswordDNA returns, {result} after
    chars,            \* argument of a direct determineDeathCause call
    breachCount,      \* its optional second argument
    cause,            \* {} before determineDeathCause returns, {label} after
    calls,            \* the analyzer calls made so far, with what they returned
    now,              \* Date.now()
    map,              \* checkPasswordLimiter.map: key -> [count, resetTime]
    request,          \* {} or the last request given to POST
    response,         \* {} or the Response POST returned for it
    answered,         \* key -> the time and status of each request the limiter saw
    pc,               \* where handleSubmit stands: "idle", "fetch", "chat"
    isLoading, obituary, isStreaming, analysisData, passwordAlive, error,
    graveyard, totalChecked, lastPassword, showConfetti,   \* useState of Home
    confettiTimers,   \* the times at which a pending setTimeout hides the confetti
    sound,            \* the sounds played, in order
    chat,             \* the message lists handed to puter.ai.chat, in order
    session,          \* what the user and the network do during the session
    checks,           \* each finished check: its password, response, time
    unique,           \* processPasswords: the de-duplicated batch
    index,            \* its loop variable i
    batchResults, results, processing, progress, batchError,
    bpc               \* where processPasswords stands: "idle", "loop", "wait", "done"

analyzerVars == <<password, characteristics, segments>>
deathVars    == <<chars, breachCount, cause>>
serverVars   == <<now, map, request, response, answered>>
pageVars     == <<pc, isLoading, obituary, isStreaming, analysisData, passwordAlive,
                  error, graveyard, totalChecked, lastPassword, showConfetti,
                  confettiTimers, sound, chat, session, checks>>
batchVars    == <<unique, index, batchResults, results, processing, progress,
                  batchError, bpc>>

vars == <<analyzerVars, deathVars, calls, serverVars, pageVars, batchVars>>

----------------------------------------------------------------------------
(* Characters                                                              *)

LowerLetters ==
    <<"a","b","c","d","e","f","g","h","i","j","k","l","m",
      "n","o","p","q","r","s","t","u","v","w","x","y","z">>

UpperLetters ==
    <<"A","B","C","D","E","F","G","H","I","J","K","L","M",
      "N","O","P","Q","R","S","T","U","V","W","X","Y","Z">>

DigitChars == <<"0","1","2","3","4","5","6","7","8","9">>

Range(s) == { s[i] : i \in DOMAIN s }

LowerSet == Range(LowerLetters)
UpperSet == Range(UpperLetters)
DigitSet == Range(DigitChars)

\* /[a-z]/, /[A-Z]/, /[0-9]/ (also \d) and /[^a-zA-Z0-9]/ on one character
IsLower(c) == c \in LowerSet
IsUpper(c) == c \in UpperSet
IsDigit(c) == c \in DigitSet
IsSymbol(c) == ~IsLower(c) /\ ~IsUpper(c) /\ ~IsDigit(c)

\* String.prototype.toLowerCase on one character (ASCII letters fold,
\* every other character of the model is its own lower case)
LowerChar(c) ==
    IF IsUpper(c)
    THEN LowerLetters[CHOOSE i \in DOMAIN UpperLetters : UpperLetters[i] = c]
    ELSE c

\* U+0130, LATIN CAPITAL LETTER I WITH DOT ABOVE: the one character whose
\* lower case is two characters long, "i" followed by U+0307
CAPITAL_I_DOT == "U+0130"
COMBINING_DOT == "U+0307"

\* the characters of toLowerCase(s) that come from s[1..j-1]
LowerLen(s, j) ==
    (j - 1) + Cardinality({ m \in 1..(j - 1) : s[m] = CAPITAL_I_DOT })

\* String.prototype.toLowerCase: character by character, the result longer
\* than s by one for every U+0130 in s
toLowerCase(s) ==
    IF \A i \in DOMAIN s : s[i] # CAPITAL_I_DOT
    THEN [i \in DOMAIN s |-> LowerChar(s[i])]
    ELSE [k \in 1..LowerLen(s, Len(s) + 1) |->
             LET j == CHOOSE j \in DOMAIN s :
                          LowerLen(s, j) < k /\ k <= LowerLen(s, j + 1)
             IN  IF s[j] # CAPITAL_I_DOT THEN LowerChar(s[j])
                 ELSE IF k = LowerLen(s, j) + 1 THEN "i"
                 ELSE COMBINING_DOT]

NaN == -1

\* parseInt of a one-character string: the digit's value, NaN otherwise
parseInt(c) ==
    IF IsDigit(c)
    THEN (CHOOSE i \in DOMAIN DigitChars : DigitChars[i] = c) - 1
    ELSE NaN

isNaN(v) == v = NaN

\* Array.prototype.join(""): the string made of the characters of s
RECURSIVE Join(_)
Join(s) == IF s = <<>> THEN "" ELSE Head(s) \o Join(Tail(s))

\* String.prototype.includes(p) for a pattern given as a string
includes(s, p) ==
    \E k \in 0..(Len(s) - Len(p)) : Join(SubSeq(s, k + 1, k + Len(p))) = p

\* String.prototype.indexOf(sub) !== -1 for two character sequences
indexOfFound(row, sub) ==
    \E k \in 0..(Len(row) - Len(sub)) : SubSeq(row, k + 1, k + Len(sub)) = sub

----------------------------------------------------------------------------
(* Configuration tables                                                    *)

COMMON_PASSWORDS == {
  "password", "123456", "12345678", "qwerty", "abc123", "monkey", "1234567",
  "letmein", "trustno1", "dragon", "baseball", "iloveyou", "master", "sunshine",
  "ashley", "bailey", "shadow", "123123", "654321", "superman", "qazwsx",
  "michael", "football", "password1", "password123", "batman", "login",
  "welcome", "hello", "charlie", "donald", "admin", "qwerty123", "passw0rd",
  "starwars", "princess", "cheese", "121212", "flower", "hottie", "loveme",
  "zaq1zaq1", "111111", "1234", "12345", "1q2w3e4r", "123456789", "000000",
  "azerty", "access", "test", "love", "god", "buster", "killer", "jordan",
  "jennifer", "hunter", "amanda", "jessica", "harley", "ranger", "thomas",
  "robert", "soccer", "hockey", "george", "andrew", "michelle", "daniel",
  "taylor", "apple", "pepper", "ginger", "joshua", "summer", "chicken",
  "compaq", "corvette", "mercedes", "maverick", "cookie", "samantha", "secret",
  "1234567890", "qwerty1", "computer", "internet", "whatever", "696969",
  "matrix", "mustang", "yankees", "cheese1", "camaro", "blahblah" }

KEYBOARD_PATTERNS ==
    <<"qwerty", "asdf", "zxcv", "1234", "0987", "qazwsx", "1q2w3e",
      "!@#$%", "abcdef", "asdfjkl">>

LEET_MAP ==
    [c \in {"0","1","3","4","5","7","@","!"} |->
        CASE c = "0" -> "o" [] c = "1" -> "i" [] c = "3" -> "e"
          [] c = "4" -> "a" [] c = "5" -> "s" [] c = "7" -> "t"
          [] c = "@" -> "a" [] c = "!" -> "i"]

\* COMMON_PASSWORDS.has(s) for a character sequence s
has(set, s) == Join(s) \in set

----------------------------------------------------------------------------
(* Detectors                                                               *)

\* line 50 without .toLowerCase()
deLeetKeepCase(pw) ==
    [i \in DOMAIN pw |->
        IF pw[i] \in DOMAIN LEET_MAP THEN LEET_MAP[pw[i]] ELSE pw[i]]

deLeet(pw) ==
    toLowerCase([i \in DOMAIN pw |->
        IF pw[i] \in DOMAIN LEET_MAP THEN LEET_MAP[pw[i]] ELSE pw[i]])

\* /(.)\1{2,}/
hasRepeatingChars(pw) ==
    \E i \in 1..(Len(pw) - 2) : pw[i + 1] = pw[i] /\ pw[i + 2] = pw[i]

\* lines 63-65 with the successor taken modulo 10, so that 9 is followed by 0
SequentialAtWrap(a, b, c) ==
    /\ ~isNaN(a) /\ ~isNaN(b) /\ ~isNaN(c)
    /\ \/ (b = (a + 1) % 10 /\ c = (b + 1) % 10)
       \/ (a = (b + 1) % 10 /\ b = (c + 1) % 10)

SequentialAt(a, b, c) ==
    /\ ~isNaN(a) /\ ~isNaN(b) /\ ~isNaN(c)
    /\ \/ (b = a + 1 /\ c = b + 1)
       \/ (b = a - 1 /\ c = b - 1)

hasSequentialNumbers(pw) ==
    \E i \in 1..(Len(pw) - 2) :
        SequentialAt(parseInt(pw[i]), parseInt(pw[i + 1]), parseInt(pw[i + 2]))

hasKeyboardPattern(pw) ==
    LET lower == toLowerCase(pw)
    IN  \E k \in DOMAIN KEYBOARD_PATTERNS : includes(lower, KEYBOARD_PATTERNS[k])

----------------------------------------------------------------------------
(* Exact arithmetic for Math.pow(charsetSize, len) / 10_000_000_000.       *)
(* A natural number is the sequence of its base-10000 digits, least        *)
(* significant first, without leading zeros; zero is <<>>.                 *)

BASE == 10000

RECURSIVE BigCarry(_, _, _)
BigCarry(a, m, carry) ==
    IF a = <<>>
    THEN IF carry = 0 THEN <<>>
         ELSE <<carry % BASE>> \o BigCarry(<<>>, m, carry \div BASE)
    ELSE LET v == Head(a) * m + carry
         IN  <<v % BASE>> \o BigCarry(Tail(a), m, v \div BASE)

\* a * m, for a factor 0 < m <= 200000
BigMul(a, m) == BigCarry(a, m, 0)

RECURSIVE BigLessFrom(_, _, _)
BigLessFrom(a, b, i) ==
    IF i = 0 THEN FALSE
    ELSE IF a[i] # b[i] THEN a[i] < b[i]
    ELSE BigLessFrom(a, b, i - 1)

\* a < b
BigLess(a, b) ==
    IF Len(a) # Len(b) THEN Len(a) < Len(b) ELSE BigLessFrom(a, b, Len(a))

\* Math.pow(base, exp) for integers
RECURSIVE MathPow(_, _)
MathPow(base, exp) == IF exp = 0 THEN <<1>> ELSE BigMul(MathPow(base, exp - 1), base)

\* The divisor 10_000_000_000 of line 87, as two factors
RATE_FACTOR == 100000

\* d seconds' worth of guesses: d * 10_000_000_000
Guesses(d) == BigMul(BigMul(d, RATE_FACTOR), RATE_FACTOR)

\* seconds < d, where seconds = combinations / 10_000_000_000
SecondsLess(combinations, d) == BigLess(combinations, Guesses(d))

MINUTE == 60
HOUR == 3600
DAY == 86400
DAYS_PER_YEAR == 365
THOUSAND == 1000

Seconds(n) == IF n = 0 THEN <<>> ELSE BigMul(<<1>>, n)
YEAR_SECONDS == BigMul(Seconds(DAY), DAYS_PER_YEAR)                 \* 86400 * 365
KILOYEAR_SECONDS == BigMul(YEAR_SECONDS, THOUSAND)                  \* 86400 * 365 * 1000
MEGAYEAR_SECONDS == BigMul(KILOYEAR_SECONDS, THOUSAND)              \* 86400 * 365 * 1_000_000

\* seconds <= k * unit
AtMost(combinations, unit, k) ==
    k > 0 /\ ~BigLess(Guesses(BigMul(unit, k)), combinations)

RECURSIVE CeilAbove(_, _, _)
CeilAbove(combinations, unit, k) ==
    IF AtMost(combinations, unit, k) THEN k
    ELSE CeilAbove(combinations, unit, 2 * k)

\* the least k in lo+1..hi with seconds <= k * unit
RECURSIVE CeilBetween(_, _, _, _)
CeilBetween(combinations, unit, lo, hi) ==
    IF hi = lo + 1 THEN hi
    ELSE LET mid == (lo + hi) \div 2
         IN  IF AtMost(combinations, unit, mid)
             THEN CeilBetween(combinations, unit, lo, mid)
             ELSE CeilBetween(combinations, unit, mid, hi)

\* Math.floor in the place of Math.ceil (seconds / unit is no integer here)
MathFloor(combinations, unit) ==
    LET hi == CeilAbove(combinations, unit, 1)
    IN  CeilBetween(combinations, unit, hi \div 2, hi) - 1

\* Math.ceil(seconds / unit) for 0 < seconds: the least integer k with
\* seconds <= k * unit, found by doubling and bisection
MathCeil(combinations, unit) ==
    LET hi == CeilAbove(combinations, unit, 1)
    IN  CeilBetween(combinations, unit, hi \div 2, hi)

\* The strings estimateCrackTime returns: `${count} ${unit}`, or a fixed
\* label (count 0)
Label(text) == [count |-> 0, unit |-> text]
Counted(k, unit) == [count |-> k, unit |-> unit]

\* lines 78-83
CharsetSize(c) ==
    LET sum == (IF c.hasLowercase THEN 26 ELSE 0)
             + (IF c.hasUppercase THEN 26 ELSE 0)
             + (IF c.hasNumbers THEN 10 ELSE 0)
             + (IF c.hasSymbols THEN 33 ELSE 0)
    IN  IF sum = 0 THEN 26 ELSE sum

\* lines 90-97: the label of seconds = combinations / 10_000_000_000
CrackTimeSwappedUnits(combinations) ==
    IF SecondsLess(combinations, Seconds(1)) THEN Label("less than a second")
    ELSE IF SecondsLess(combinations, Seconds(MINUTE))
        THEN Counted(MathCeil(combinations, Seconds(1)), "seconds")
    ELSE IF SecondsLess(combinations, Seconds(HOUR))
        THEN Counted(MathCeil(combinations, Seconds(MINUTE)), "minutes")
    ELSE IF SecondsLess(combinations, Seconds(DAY))
        THEN Counted(MathCeil(combinations, Seconds(HOUR)), "days")
    ELSE IF SecondsLess(combinations, YEAR_SECONDS)
        THEN Counted(MathCeil(combinations, Seconds(DAY)), "hours")
    ELSE IF SecondsLess(combinations, KILOYEAR_SECONDS)
        THEN Counted(MathCeil(combinations, YEAR_SECONDS), "years")
    ELSE IF SecondsLess(combinations, MEGAYEAR_SECONDS)
        THEN Counted(MathCeil(combinations, KILOYEAR_SECONDS), "thousand years")
    ELSE Label("millions of years")

CrackTime(combinations) ==
    IF SecondsLess(combinations, Seconds(1)) THEN Label("less than a second")
    ELSE IF SecondsLess(combinations, Seconds(MINUTE))
        THEN Counted(MathCeil(combinations, Seconds(1)), "seconds")
    ELSE IF SecondsLess(combinations, Seconds(HOUR))
        THEN Counted(MathCeil(combinations, Seconds(MINUTE)), "minutes")
    ELSE IF SecondsLess(combinations, Seconds(DAY))
        THEN Counted(MathCeil(combinations, Seconds(HOUR)), "hours")
    ELSE IF SecondsLess(combinations, YEAR_SECONDS)
        THEN Counted(MathCeil(combinations, Seconds(DAY)), "days")
    ELSE IF SecondsLess(combinations, KILOYEAR_SECONDS)
        THEN Counted(MathCeil(combinations, YEAR_SECONDS), "years")
    ELSE IF SecondsLess(combinations, MEGAYEAR_SECONDS)
        THEN Counted(MathCeil(combinations, KILOYEAR_SECONDS), "thousand years")
    ELSE Label("millions of years")

estimateCrackTimeSecondsFirst(pw, c) ==
    LET combinations == MathPow(CharsetSize(c), Len(pw))
    IN  IF SecondsLess(combinations, Seconds(1)) THEN Label("less than a second")
        ELSE IF c.isCommon THEN Label("instantly (common password)")
        ELSE CrackTime(combinations)

estimateCrackTime(pw, c) ==
    LET combinations == MathPow(CharsetSize(c), Len(pw))
    IN  IF c.isCommon THEN Label("instantly (common password)")
        ELSE CrackTime(combinations)

----------------------------------------------------------------------------
(* Score, death cause, pattern tags                                        *)

Min(a, b) == IF a < b THEN a ELSE b
Max(a, b) == IF a > b THEN a ELSE b

\* lines 101-122: the sum before clamping
RawScore(pw, c) ==
    LET typesUsed == Cardinality({ f \in {"hasLowercase", "hasUppercase",
                                           "hasNumbers", "hasSymbols"} : c[f] })
    IN  Min(Len(pw) * 4, 40)
      + (IF c.hasLowercase THEN 5 ELSE 0)
      + (IF c.hasUppercase THEN 10 ELSE 0)
      + (IF c.hasNumbers THEN 10 ELSE 0)
      + (IF c.hasSymbols THEN 15 ELSE 0)
      - (IF c.isCommon THEN 40 ELSE 0)
      - (IF c.hasKeyboardPattern THEN 15 ELSE 0)
      - (IF c.hasRepeatingChars THEN 10 ELSE 0)
      - (IF c.hasSequentialNumbers THEN 10 ELSE 0)
      - (IF Len(pw) < 6 THEN 20 ELSE 0)
      + (IF typesUsed >= 3 THEN 10 ELSE 0)
      + (IF typesUsed = 4 THEN 10 ELSE 0)

\* return score, without Math.max / Math.min
calculateStrengthNoClamp(pw, c) == RawScore(pw, c)

\* return Math.min(100, score), without Math.max(0, ...)
calculateStrengthNoFloor(pw, c) == Min(100, RawScore(pw, c))

\* the short-password penalty taken for length <= 6 instead of < 6
calculateStrengthShortLe6(pw, c) ==
    Max(0, Min(100, RawScore(pw, c) - (IF Len(pw) = 6 THEN 20 ELSE 0)))

\* line 113 with a penalty of 20: score -= 20
calculateStrengthCommon20(pw, c) ==
    Max(0, Min(100, RawScore(pw, c) + (IF c.isCommon THEN 20 ELSE 0)))

calculateStrength(pw, c) == Max(0, Min(100, RawScore(pw, c)))

\* breachCount > 1000 written >= 1000
determineDeathCauseGe1000(c, bc) ==
    IF c.isCommon THEN "dictionary attack"
    ELSE IF \E n \in bc : n # 0 /\ n >= 1000 THEN "credential stuffing"
    ELSE IF (c.hasKeyboardPattern \/ c.hasSequentialNumbers) /\ ~c.hasSymbols
        THEN "pattern-based attack"
    ELSE IF c.length <= 6 THEN "brute force"
    ELSE IF c.length <= 8 /\ ~c.hasSymbols /\ ~c.hasUppercase THEN "brute force"
    ELSE IF \E n \in bc : n # 0 /\ n > 0 THEN "credential stuffing"
    ELSE "social engineering"

\* line 134 written breachCount !== 0, which an omitted count passes
determineDeathCauseNonZero(c, bc) ==
    IF c.isCommon THEN "dictionary attack"
    ELSE IF \E n \in bc : n # 0 /\ n > 1000 THEN "credential stuffing"
    ELSE IF (c.hasKeyboardPattern \/ c.hasSequentialNumbers) /\ ~c.hasSymbols
        THEN "pattern-based attack"
    ELSE IF c.length <= 6 THEN "brute force"
    ELSE IF c.length <= 8 /\ ~c.hasSymbols /\ ~c.hasUppercase THEN "brute force"
    ELSE IF bc # {0} THEN "credential stuffing"
    ELSE "social engineering"

\* breachCount is {} when the argument is omitted (undefined), {n} otherwise
determineDeathCause(c, bc) ==
    IF c.isCommon THEN "dictionary attack"
    ELSE IF \E n \in bc : n # 0 /\ n > 1000 THEN "credential stuffing"
    ELSE IF (c.hasKeyboardPattern \/ c.hasSequentialNumbers) /\ ~c.hasSymbols
        THEN "pattern-based attack"
    ELSE IF c.length <= 6 THEN "brute force"
    ELSE IF c.length <= 8 /\ ~c.hasSymbols /\ ~c.hasUppercase THEN "brute force"
    ELSE IF \E n \in bc : n # 0 /\ n > 0 THEN "credential stuffing"
    ELSE "social engineering"

IsLetter(c) == IsLower(c) \/ IsUpper(c)

\* /^\d+$/ and /^[a-zA-Z]+$/
NumbersOnly(pw) == pw # <<>> /\ \A i \in DOMAIN pw : IsDigit(pw[i])
LettersOnly(pw) == pw # <<>> /\ \A i \in DOMAIN pw : IsLetter(pw[i])

\* /^[A-Z][a-z]+\d+$/
NameNumbers(pw) ==
    \E k \in 2..(Len(pw) - 1) :          \* k: the last lowercase letter
        /\ IsUpper(pw[1])
        /\ \A i \in 2..k : IsLower(pw[i])
        /\ \A i \in (k + 1)..Len(pw) : IsDigit(pw[i])

\* /^[a-z]+\d{1,4}$/
WordSuffix(pw) ==
    \E k \in 1..(Len(pw) - 1) :          \* k: the last lowercase letter
        /\ Len(pw) - k <= 4
        /\ \A i \in 1..k : IsLower(pw[i])
        /\ \A i \in (k + 1)..Len(pw) : IsDigit(pw[i])

\* /19[5-9]\d|20[0-3]\d/
ContainsYearTo2039(pw) ==
    \E i \in 1..(Len(pw) - 3) :
        /\ IsDigit(pw[i + 3])
        /\ \/ pw[i] = "1" /\ pw[i + 1] = "9" /\ pw[i + 2] \in {"5","6","7","8","9"}
           \/ pw[i] = "2" /\ pw[i + 1] = "0" /\ pw[i + 2] \in {"0","1","2","3"}

\* /19[5-9]\d|20[0-2]\d/
ContainsYear(pw) ==
    \E i \in 1..(Len(pw) - 3) :
        /\ IsDigit(pw[i + 3])
        /\ \/ pw[i] = "1" /\ pw[i + 1] = "9" /\ pw[i + 2] \in {"5","6","7","8","9"}
           \/ pw[i] = "2" /\ pw[i + 1] = "0" /\ pw[i + 2] \in {"0","1","2"}

\* patterns.push(tag) when the condition holds
Push(cond, tag) == IF cond THEN <<tag>> ELSE <<>>

\* line 143 without the test deLeet(password) !== lower
LeetTagNoDifference(pw) ==
    Push(has(COMMON_PASSWORDS, deLeet(pw)),
         "leet-speak substitution of a common password")

\* line 143 with the de-leeted password not lower-cased before the lookup
LeetTagCaseSensitive(pw) ==
    Push(deLeet(pw) # toLowerCase(pw) /\ has(COMMON_PASSWORDS, deLeetKeepCase(pw)),
         "leet-speak substitution of a common password")

\* lines 143-144
LeetTag(pw) ==
    Push(deLeet(pw) # toLowerCase(pw) /\ has(COMMON_PASSWORDS, deLeet(pw)),
         "leet-speak substitution of a common password")

\* lines 150-151 with `if` in the place of `else if`
LengthTierNoElse(pw) ==
    Push(Len(pw) <= 4, "extremely short") \o Push(Len(pw) <= 6, "very short")

\* lines 150-151
LengthTier(pw) ==
    IF Len(pw) <= 4 THEN <<"extremely short">>
    ELSE IF Len(pw) <= 6 THEN <<"very short">> ELSE <<>>

detectPatterns(pw) ==
    LET lower == toLowerCase(pw)
    IN  Push(has(COMMON_PASSWORDS, lower), "common password")
     \o LeetTag(pw)
     \o Push(hasKeyboardPattern(pw), "keyboard pattern")
     \o Push(hasRepeatingChars(pw), "repeating characters")
     \o Push(hasSequentialNumbers(pw), "sequential numbers")
     \o Push(NumbersOnly(pw), "numbers only")
     \o Push(LettersOnly(pw), "letters only")
     \o LengthTier(pw)
     \o Push(NameNumbers(pw), "name + numbers pattern")
     \o Push(WordSuffix(pw), "word + short number suffix")
     \o Push(ContainsYear(pw), "contains a year")

analyzePassword(pw) ==
    LET partial ==
            [length               |-> Len(pw),
             hasUppercase         |-> \E i \in DOMAIN pw : IsUpper(pw[i]),
             hasLowercase         |-> \E i \in DOMAIN pw : IsLower(pw[i]),
             hasNumbers           |-> \E i \in DOMAIN pw : IsDigit(pw[i]),
             hasSymbols           |-> \E i \in DOMAIN pw : IsSymbol(pw[i]),
             isCommon             |-> \/ has(COMMON_PASSWORDS, toLowerCase(pw))
                                      \/ has(COMMON_PASSWORDS, deLeet(pw)),
             hasKeyboardPattern   |-> hasKeyboardPattern(pw),
             hasRepeatingChars    |-> hasRepeatingChars(pw),
             hasSequentialNumbers |-> hasSequentialNumbers(pw)]
    IN  [length               |-> partial.length,
         hasUppercase         |-> partial.hasUppercase,
         hasLowercase         |-> partial.hasLowercase,
         hasNumbers           |-> partial.hasNumbers,
         hasSymbols           |-> partial.hasSymbols,
         isCommon             |-> partial.isCommon,
         hasKeyboardPattern   |-> partial.hasKeyboardPattern,
         hasRepeatingChars    |-> partial.hasRepeatingChars,
         hasSequentialNumbers |-> partial.hasSequentialNumbers,
         strengthScore        |-> calculateStrength(pw, partial),
         estimatedCrackTime   |-> estimateCrackTime(pw, partial),
         deathCause           |-> determineDeathCause(partial, {}),
         patterns             |-> detectPatterns(pw)]

----------------------------------------------------------------------------
(* DNA segmenter                                                           *)

KEYBOARD_ROW_1 == <<"q","w","e","r","t","y","u","i","o","p">>
KEYBOARD_ROW_2 == <<"a","s","d","f","g","h","j","k","l">>
KEYBOARD_ROW_3 == <<"z","x","c","v","b","n","m">>
KEYBOARDS == <<KEYBOARD_ROW_1, KEYBOARD_ROW_2, KEYBOARD_ROW_3,
               <<"1","2","3","4","5","6","7","8","9","0">> >>

\* /[!@#$%^&*()_+\-=\[\]{};':"\\|,.<>\/?~]/ and the grave accent, which a
\* TLA+ string cannot hold; no password of the model contains one
SPECIAL_CHARS ==
    {"!","@","#","$","%","^","&","*","(",")","_","+","-","=","[","]","{","}",
     ";","'",":","\"","\\","|",",",".","<",">","/","?","~"}

Reverse(s) == [i \in DOMAIN s |-> s[Len(s) + 1 - i]]

\* In the two reasons that hold a dash, "-" stands for the code's U+2014
Rated(strength, reason) == [strength |-> strength, reason |-> reason]

\* for (const row of KEYBOARDS): the first row holding the window, or its
\* reversal, decides; `rated` is kept when no row does
RECURSIVE KeyboardRun(_, _, _)
KeyboardRun(sub, r, rated) ==
    IF r > Len(KEYBOARDS) THEN rated
    ELSE IF indexOfFound(KEYBOARDS[r], sub)
        THEN Rated(0, "keyboard pattern sequence")
    ELSE IF indexOfFound(KEYBOARDS[r], Reverse(sub))
        THEN Rated(0, "reversed keyboard pattern")
    ELSE KeyboardRun(sub, r + 1, rated)

\* i is the 1-based index of the character; the code's i is i - 1
KeyboardStep(pw, i, rated) ==
    IF i - 1 >= 2
    THEN KeyboardRun(SubSeq(toLowerCase(pw), i - 2, i), 1, rated)
    ELSE rated

\* line 255 with the ascending alternative only
SequentialStepAscending(pw, i, rated) ==
    IF /\ i - 1 >= 2
       /\ ~isNaN(parseInt(pw[i - 2])) /\ ~isNaN(parseInt(pw[i - 1]))
       /\ ~isNaN(parseInt(pw[i]))
       /\ parseInt(pw[i - 1]) = parseInt(pw[i - 2]) + 1
       /\ parseInt(pw[i]) = parseInt(pw[i - 1]) + 1
    THEN Rated(0, "sequential number run")
    ELSE rated

SequentialStep(pw, i, rated) ==
    IF /\ i - 1 >= 2
       /\ SequentialAt(parseInt(pw[i - 2]), parseInt(pw[i - 1]), parseInt(pw[i]))
    THEN Rated(0, "sequential number run")
    ELSE rated

\* line 267 without the cap: the strength stays what it was
RepeatStepNoCap(pw, i, rated) ==
    IF i - 1 >= 2 /\ pw[i] = pw[i - 1] /\ pw[i - 1] = pw[i - 2]
    THEN Rated(0, "repeating character")
    ELSE IF i - 1 >= 1 /\ pw[i] = pw[i - 1] /\ rated.strength > 0
    THEN Rated(rated.strength, "repeated character")
    ELSE rated

RepeatStep(pw, i, rated) ==
    IF i - 1 >= 2 /\ pw[i] = pw[i - 1] /\ pw[i - 1] = pw[i - 2]
    THEN Rated(0, "repeating character")
    ELSE IF i - 1 >= 1 /\ pw[i] = pw[i - 1] /\ rated.strength > 0
    THEN Rated(Min(rated.strength, 1), "repeated character")
    ELSE rated

CharTypeStep(pw, i, rated) ==
    LET c == pw[i]
    IN  IF rated.strength >= 2
        THEN IF c \in SPECIAL_CHARS
                THEN Rated(3, "special character - excellent")
             ELSE IF IsUpper(c) /\ \E j \in DOMAIN pw : IsLower(pw[j])
                THEN Rated(3, "mixed case - strong")
             ELSE IF IsDigit(c) /\ \E j \in DOMAIN pw : IsLetter(pw[j])
                THEN Rated(2, "number mixed with letters")
             ELSE IF IsLower(c) THEN Rated(1, "lowercase letter only")
             ELSE IF IsDigit(c) THEN Rated(1, "digit only")
             ELSE rated
        ELSE rated

\* the loop body with the sequential-number check (lines 249-260) placed
\* before the keyboard rows (lines 230-247)
DNASegmentKeyboardLast(pw, i) ==
    LET rated ==
            CharTypeStep(pw, i,
                RepeatStep(pw, i,
                    KeyboardStep(pw, i,
                        SequentialStep(pw, i, Rated(2, "acceptable character")))))
        isShowChar == i - 1 < 2 \/ i - 1 >= Len(pw) - 2 \/ Len(pw) <= 5
    IN  [char     |-> IF isShowChar THEN pw[i] ELSE "*",
         strength |-> rated.strength,
         reason   |-> rated.reason]

\* the loop body run on the string as it is displayed: the middle characters
\* replaced by "*" before the rules rate them
DNASegmentMaskFirst(pw, i) ==
    LET shown == [k \in DOMAIN pw |->
                     IF k - 1 < 2 \/ k - 1 >= Len(pw) - 2 \/ Len(pw) <= 5
                     THEN pw[k] ELSE "*"]
        rated ==
            CharTypeStep(shown, i,
                RepeatStep(shown, i,
                    SequentialStep(shown, i,
                        KeyboardStep(shown, i, Rated(2, "acceptable character")))))
    IN  [char     |-> shown[i],
         strength |-> rated.strength,
         reason   |-> rated.reason]

\* One iteration of the loop of analyzePasswordDNA: the segment pushed
DNASegment(pw, i) ==
    LET rated ==
            CharTypeStep(pw, i,
                RepeatStep(pw, i,
                    SequentialStep(pw, i,
                        KeyboardStep(pw, i, Rated(2, "acceptable character")))))
        isShowChar == i - 1 < 2 \/ i - 1 >= Len(pw) - 2 \/ Len(pw) <= 5
    IN  [char     |-> IF isShowChar THEN pw[i] ELSE "*",
         strength |-> rated.strength,
         reason   |-> rated.reason]

\* the loop stopping one character early (i < password.length - 1)
analyzePasswordDNAShort(pw) == [i \in 1..(Len(pw) - 1) |-> DNASegment(pw, i)]

analyzePasswordDNA(pw) == [i \in 1..Len(pw) |-> DNASegment(pw, i)]

----------------------------------------------------------------------------
(* lib/apiUtils: rate limiter, client key, origin check, masking           *)

\* new RateLimiter(10, 60_000)
checkPasswordLimiter == [limit |-> 10, windowMs |-> 60000]

\* Map.set(key, entry)
MapSet(m, key, entry) ==
    [k \in DOMAIN m \cup {key} |-> IF k = key THEN entry ELSE m[k]]

\* line 70 written entry.count >= this.limit
isRateLimitedAtLimit(limiter, m, key, t) ==
    IF key \notin DOMAIN m \/ t > m[key].resetTime
    THEN [limited |-> FALSE,
          map     |-> MapSet(m, key, [count     |-> 1,
                                      resetTime |-> t + limiter.windowMs])]
    ELSE [limited |-> m[key].count + 1 >= limiter.limit,
          map     |-> MapSet(m, key, [m[key] EXCEPT !.count = @ + 1])]

\* isRateLimited(key) called at time t on the map m: the value returned and
\* the map it leaves
isRateLimited(limiter, m, key, t) ==
    IF key \notin DOMAIN m \/ t > m[key].resetTime
    THEN [limited |-> FALSE,
          map     |-> MapSet(m, key, [count     |-> 1,
                                      resetTime |-> t + limiter.windowMs])]
    ELSE [limited |-> m[key].count + 1 > limiter.limit,
          map     |-> MapSet(m, key, [m[key] EXCEPT !.count = @ + 1])]

\* The x-forwarded-for header is {} when absent, else {items}: its
\* comma-separated items, trimmed.  forwarded?.split(",")[0]?.trim() ||
\* "unknown"
getClientIP(forwarded) ==
    IF forwarded = {} THEN "unknown"
    ELSE LET items == CHOOSE x \in forwarded : TRUE
         IN  IF items = <<>> \/ items[1] = "" THEN "unknown" ELSE items[1]

\* An origin or referer header is {} when absent, else {[localhost, host]}:
\* whether its text includes "localhost", and the host new URL() gives it
\* ("" when it does not parse, which makes new URL throw)
isValidOrigin(req) ==
    IF req.origin = {} /\ req.referer = {} THEN TRUE
    ELSE IF \E u \in req.origin \cup req.referer : u.localhost THEN TRUE
    ELSE IF req.origin # {}
        THEN \A u \in req.origin : u.host # "" /\ u.host = req.host
    ELSE TRUE

\* "*".repeat(n)
Stars(n) == [k \in 1..n |-> "*"]

maskPassword(pw) ==
    IF Len(pw) <= 2 THEN Stars(Len(pw))
    ELSE IF Len(pw) <= 4 THEN <<pw[1]>> \o Stars(Len(pw) - 1)
    ELSE SubSeq(pw, 1, 2) \o Stars(Min(Len(pw) - 4, 6))
                          \o SubSeq(pw, Len(pw) - 1, Len(pw))

----------------------------------------------------------------------------
(* app/api/check-password/route.ts                                         *)

\* "•" eight times; a code unit outside ASCII is written by its name
dotPassword == [k \in 1..8 |-> "U+2022"]

validTones == {"victorian", "roast", "hollywood"}

\* the three personas, by their first sentence
tonePrompts ==
    [t \in validTones |->
        CASE t = "victorian" -> "You are Lord Reginald Cryptworth III, ..."
          [] t = "roast"     -> "You are DJ CrackMaster, ..."
          [] t = "hollywood" -> "You are a legendary Hollywood narrator ..."]

\* Number.prototype.toLocaleString() in the en-US locale: groups of three
\* digits separated by commas
RECURSIVE toLocaleString(_)
toLocaleString(n) ==
    IF n < 1000 THEN ToString(n)
    ELSE LET low == n % 1000
         IN  toLocaleString(n \div 1000) \o ","
                \o (IF low < 10 THEN "00" ELSE IF low < 100 THEN "0" ELSE "")
                \o ToString(low)

\* array.filter(Boolean).join(", ") for an array of `flag && name` items
RECURSIVE JoinNamed(_)
JoinNamed(items) ==
    IF items = <<>> THEN <<>>
    ELSE IF ~Head(items)[1] THEN JoinNamed(Tail(items))
    ELSE LET rest == JoinNamed(Tail(items))
         IN  IF rest = <<>> THEN <<Head(items)[2]>>
             ELSE <<Head(items)[2], ", ">> \o rest

\* the lines of the text, each the sequence of its literal and interpolated
\* parts
formatCharacteristicsForPrompt(c) ==
    LET contains == JoinNamed(<< <<c.hasLowercase, "lowercase">>,
                                 <<c.hasUppercase, "uppercase">>,
                                 <<c.hasNumbers, "numbers">>,
                                 <<c.hasSymbols, "symbols">> >>)
    IN  << <<"Length: ", c.length, " characters">>,
           <<"Contains: ", IF contains = <<>> THEN <<"unknown">> ELSE contains>>,
           <<"Strength score: ", c.strengthScore, "/100">>,
           <<"Estimated crack time: ", c.estimatedCrackTime>> >>
        \o Push(Len(c.patterns) > 0, <<"Patterns detected: ", c.patterns>>)

\* lines 110-117; `name` is what the template interpolates as the password
systemPrompt(name, selectedTone) ==
    << tonePrompts[selectedTone],
       "CRITICAL RULES:",
       <<"1. When referring to the password, ALWAYS write it as ", name>>,
       <<"2. Format the obituary title as: IN MEMORIAM: ", name,
         " or FAREWELL: ", name>>,
       "3. Do NOT use generic filler.",
       "4. Keep it 4-5 paragraphs.",
       "5. Do NOT use any religious references." >>

\* lines 119-130
userPrompt(name, c, bc) ==
    << <<"Write an obituary for the password ", name>>,
       "Here are the FACTS about this password",
       <<"- Password length: ", c.length, " characters">>,
       <<"- Has been seen ", toLocaleString(bc), " times in data breaches">>,
       "- Characteristics:",
       formatCharacteristicsForPrompt(c),
       <<"- Cause of death: ", c.deathCause>>,
       IF bc > 0
       THEN <<"- Found in ", toLocaleString(bc), " known data breaches">>
       ELSE <<"- Not found in any known data breaches yet">>,
       <<"- Estimated crack time: ", c.estimatedCrackTime>>,
       <<"- The password display name for the obituary is: ", name>>,
       "Make it feel personal, specific, and vivid." >>

\* lines 110-130 with maskedPassword interpolated for the password's name
PromptsOfMasked(pw, c, tone, bc) ==
    LET selectedTone == IF tone \in validTones THEN tone ELSE "victorian"
    IN  [systemPrompt |-> systemPrompt(maskPassword(pw), selectedTone),
         userPrompt   |-> userPrompt(maskPassword(pw), c, bc)]

\* lines 45-46, 110-130: the two prompts POST builds, with all that is in
\* scope: the password, its characteristics, the tone and the breach count
PromptsOf(pw, c, tone, bc) ==
    LET selectedTone == IF tone \in validTones THEN tone ELSE "victorian"
    IN  [systemPrompt |-> systemPrompt(dotPassword, selectedTone),
         userPrompt   |-> userPrompt(dotPassword, c, bc)]

\* Response.json(body, {status}), with the limiter's map as the call left it
Reply(status, body, m) == [status |-> status, body |-> body, map |-> m]

\* POST handling the request req at time t with the limiter's map m.
\* req.json is {} when the body is not JSON, else {[password, tone]} with
\* password {} when it is missing or not a string; `found` is {} when the
\* breach lookup throws, else {the count it returns}.
POST(req, found, m, t) ==
    IF ~isValidOrigin(req)
    THEN Reply(403, [error |-> "Invalid request origin."], m)
    ELSE
    LET ip == getClientIP(req.forwarded)
        rl == isRateLimited(checkPasswordLimiter, m, ip, t)
        failed == Reply(500, [error |-> "Failed to analyze password. Please try again."], rl.map)
    IN  IF rl.limited
        THEN Reply(429, [error |-> "Too many requests. Please wait a moment."], rl.map)
        ELSE IF req.json = {} THEN failed
        ELSE
        LET json == CHOOSE j \in req.json : TRUE
        IN  IF json.password = {} \/ json.password = {<<>>}
            THEN Reply(400, [error |-> "Password is required"], rl.map)
            ELSE
            LET pw == CHOOSE p \in json.password : TRUE
            IN  IF Len(pw) > 128
                THEN Reply(400, [error |-> "Password too long (max 128 characters)"], rl.map)
                ELSE IF found = {} THEN failed
                ELSE
                LET bc == CHOOSE n \in found : TRUE
                    characteristics_ == analyzePassword(pw)
                    prompts == PromptsOf(pw, characteristics_, json.tone, bc)
                IN  Reply(200,
                          [breachCount     |-> bc,
                           characteristics |-> characteristics_,
                           systemPrompt    |-> prompts.systemPrompt,
                           userPrompt      |-> prompts.userPrompt,
                           maskedPassword  |-> maskPassword(pw)],
                          rl.map)

----------------------------------------------------------------------------
(* Inputs                                                                  *)

MaxLen == 4        \* every string over Alphabet up to this length is analysed
MaxLongLen == 24   \* longest password of the class-by-length family
MaxDeathLen == 10  \* longest length field given to determineDeathCause

Alphabet == {"g", "o", "d", "G", "0", "1", "2", "!"}

ShortPasswords == UNION { [1..n -> Alphabet] : n \in 0..MaxLen }

\* Passwords of every class combination and length: the classes' sample
\* characters in rotation
ClassSamples == <<"x", "X", "7", "#">>

Rotation(F, n) ==
    LET picked == SelectSeq(ClassSamples, LAMBDA c : c \in F)
    IN  [i \in 1..n |-> picked[((i - 1) % Len(picked)) + 1]]

LongPasswords ==
    { Rotation(F, n) : F \in (SUBSET Range(ClassSamples)) \ {{}},
                       n \in (MaxLen + 1)..MaxLongLen }

\* Lexicon entries, their case and leet variants, keyboard walks, years
SeedPasswords == {
    <<"p","a","s","s","w","o","r","d">>, <<"p","a","s","s","w","0","r","d">>,
    <<"P","a","s","s","w","0","r","d">>, <<"P","A","S","S","W","O","R","D">>,
    <<"p","@","s","s","w","0","r","d">>, <<"P","@","s","s","w","o","r","d">>,
    <<"P","@","s","s","w","0","r","d">>,
    <<"P","4","s","s","w","0","r","d","!","2","0","2","4">>,
    <<"a","a","a","1","1","1">>, <<"q","w","e","r","t","y">>,
    <<"Q","w","e","r","t","y">>, <<"q","w","e","r","t","y","1","2","3">>,
    <<"Q","W","E","R","T","Y","1">>, <<"l","e","t","m","e","i","n">>,
    <<"l","3","t","m","3","1","n">>, <<"t","r","u","s","t","n","o","1">>,
    <<"i","l","o","v","e","y","o","u">>, <<"a","b","c","1","2","3">>,
    <<"a","d","m","i","n">>, <<"4","d","m","1","n">>,
    <<"A","d","m","i","n","2","0","2","4">>, <<"h","e","l","l","o">>,
    <<"h","3","l","l","0">>, <<"h","e","l","l","o","1","9","9","9">>,
    <<"t","e","s","t">>, <<"7","3","5","7">>, <<"l","o","v","e">>,
    <<"l","0","v","3">>, <<"g","o","d">>, <<"1","2","3","4","5","6">>,
    <<"1","2","3","4","5","6","7","8">>,
    <<"1","2","3","4","5","6","7","8","9","0">>, <<"6","5","4","3","2","1">>,
    <<"1","1","1","1","1","1">>, <<"0","0","0","0","0","0">>,
    <<"1","q","2","w","3","e","4","r">>, <<"z","a","q","1","z","a","q","1">>,
    <<"a","s","d","f","g","h">>, <<"z","x","c","v","b","n">>,
    <<"A","S","D","F">>, <<"!","@","#","$","%","^">>, <<"0","9","8","7">>,
    <<"a","b","c","d","e","f">>, <<"a","s","d","f","j","k","l",";">>,
    <<"J","o","h","n","1","9","8","5">>,
    <<"S","u","m","m","e","r","2","0","2","9">>, <<"s","u","m","m","e","r">>,
    <<"m","o","n","k","e","y","1","2","3","4","5">>,
    <<"d","r","a","g","o","n","9","9">>, <<"x","1","9","5","0","y">>,
    <<"a","1","9","4","9","b">>, <<"a","2","0","3","0","b">>,
    <<"T","r","0","u","b","4","d","o","r","&","3">>,
    <<"c","o","r","r","e","c","t"," ","h","o","r","s","e">>,
    <<"Z","q","8","#","m","K","2","$","v","L","9","@">>,
    <<"z","q","m","k","v","l","p","x">>,
    <<"Z","Q","M","K","V","L","P","X","W">>,
    <<"7","3","9","1","8","2","6","4">>, <<"a","b","c","b","a">>,
    <<"a","a","a","a">>, <<"a","a","b","b">>,
    <<"9","8","7","6","5","4","3">>, <<"8","9","0","1">>,
    <<"A","b","1","!">>, <<"A","b","1","!","A","b","1","!">>,
    <<"X","y","7","#","X","y","7","#","X","y">>,
    <<"G","g","0"," ","!","1","2","3","4">>,
    <<"1","2","3","4">>, <<"1","2","3","4","5">>, <<"4","3","2","1">>, <<"a"," ","b">>, <<"p","a","s","s"," ","w","o","r","d"," ","1">>,
    <<"1","0","9","8">>, <<"a","7","7","7">>,
    <<"G","0","d","!">>, <<" "," "," ">>, <<"a","b"," ","c","d"," ","e","f"," ","g","h">>, <<"N","o","#","1"," ","f","a","n">> }

Passwords == ShortPasswords \cup LongPasswords \cup SeedPasswords

BreachCounts == {{}, {0}, {1}, {1000}, {1001}, {250000}}

Partials ==
    [length : 0..MaxDeathLen,
     hasUppercase : BOOLEAN, hasLowercase : BOOLEAN, hasNumbers : BOOLEAN,
     hasSymbols : BOOLEAN, isCommon : BOOLEAN, hasKeyboardPattern : BOOLEAN,
     hasRepeatingChars : BOOLEAN, hasSequentialNumbers : BOOLEAN]

----------------------------------------------------------------------------
(* The analyzer: one call of each entry point on a password                *)

\* no direct call of determineDeathCause
DeathStart == chars = {} /\ breachCount = {} /\ cause = {}

\* no analyzer call logged
CallsStart == calls = <<>>

\* new RateLimiter(10, 60_000): an empty map; no request answered yet
ServerStart ==
    /\ now = 0
    /\ map = <<>>
    /\ request = {}
    /\ response = {}
    /\ answered = <<>>

\* the useState initial values of Home; nothing played, nothing sent
PageStart ==
    /\ pc = "idle"
    /\ isLoading = FALSE
    /\ obituary = <<>>
    /\ isStreaming = FALSE
    /\ analysisData = {}
    /\ passwordAlive = FALSE
    /\ error = ""
    /\ graveyard = <<>>
    /\ totalChecked = 0
    /\ lastPassword = <<>>
    /\ showConfetti = FALSE
    /\ confettiTimers = {}
    /\ sound = <<>>
    /\ chat = <<>>
    /\ checks = <<>>

\* the useState initial values of BatchProcessor
BatchStart ==
    /\ index = 0
    /\ batchResults = <<>>
    /\ results = <<>>
    /\ processing = FALSE
    /\ progress = [current |-> 0, total |-> 0]
    /\ batchError = ""
    /\ bpc = "idle"

Init ==
    /\ password \in Passwords
    /\ characteristics = {}
    /\ segments = {}
    /\ DeathStart /\ CallsStart /\ ServerStart
    /\ PageStart /\ session = <<>>
    /\ BatchStart /\ unique = <<>>

AnalyzePassword ==
    /\ characteristics = {}
    /\ characteristics' = {analyzePassword(password)}
    /\ UNCHANGED <<password, segments, deathVars, calls, serverVars, pageVars, batchVars>>

AnalyzePasswordDNA ==
    /\ segments = {}
    /\ segments' = {analyzePasswordDNA(password)}
    /\ UNCHANGED <<password, characteristics, deathVars, calls, serverVars, pageVars, batchVars>>

Next == AnalyzePassword \/ AnalyzePasswordDNA

Spec == Init /\ [][Next]_vars

----------------------------------------------------------------------------
(* determineDeathCause called on its own, with and without a breach count  *)

\* no analyzer call through the state
AnalyzerStart == password = <<>> /\ characteristics = {} /\ segments = {}

InitDeath ==
    /\ AnalyzerStart
    /\ chars \in { {c} : c \in Partials }
    /\ breachCount \in BreachCounts
    /\ cause = {}
    /\ CallsStart /\ ServerStart
    /\ PageStart /\ session = <<>>
    /\ BatchStart /\ unique = <<>>

DetermineDeathCause ==
    /\ cause = {}
    /\ cause' = { determineDeathCause(c, breachCount) : c \in chars }
    /\ UNCHANGED <<analyzerVars, chars, breachCount, calls, serverVars, pageVars, batchVars>>

NextDeath == DetermineDeathCause

SpecDeath == InitDeath /\ [][NextDeath]_vars

----------------------------------------------------------------------------
(* Repeated calls of the two entry points, in any order                    *)

MaxCalls == 3   \* calls in one run of the program

CallPasswords ==
    { <<"p","a","s","s","w","o","r","d">>, <<"p","a","s","s","w","0","r","d">>,
      <<"G","0","d","!">>, <<"1","2","3","4">>, <<"a","a","a","1","1","1">> }

\* `patterns` declared once at module level: the pushes of the earlier
\* calls of analyzePassword are still in it
SharedPatterns(earlier) ==
    LET before == SelectSeq(earlier, LAMBDA e : e.fn = "analyzePassword")
    IN  IF before = <<>> THEN <<>> ELSE before[Len(before)].result.patterns

\* line 139, const patterns: string[] = []: the array a call of
\* detectPatterns starts from, whatever calls were made before
NewPatterns(earlier) == <<>>

\* line 222, const segments: DNASegment[] = []
NewSegments(earlier) == <<>>

CallAnalyzePassword(pw) ==
    /\ Len(calls) < MaxCalls
    /\ calls' = Append(calls,
           [fn       |-> "analyzePassword",
            password |-> pw,
            result   |-> [analyzePassword(pw) EXCEPT
                             !.patterns = NewPatterns(calls) \o @]])
    /\ UNCHANGED <<analyzerVars, deathVars, serverVars, pageVars, batchVars>>

CallAnalyzePasswordDNA(pw) ==
    /\ Len(calls) < MaxCalls
    /\ calls' = Append(calls,
           [fn       |-> "analyzePasswordDNA",
            password |-> pw,
            result   |-> NewSegments(calls) \o analyzePasswordDNA(pw)])
    /\ UNCHANGED <<analyzerVars, deathVars, serverVars, pageVars, batchVars>>

InitCalls ==
    /\ AnalyzerStart /\ DeathStart
    /\ calls = <<>>
    /\ ServerStart
    /\ PageStart /\ session = <<>>
    /\ BatchStart /\ unique = <<>>

NextCalls ==
    \E pw \in CallPasswords :
        CallAnalyzePassword(pw) \/ CallAnalyzePasswordDNA(pw)

SpecCalls == InitCalls /\ [][NextCalls]_vars

----------------------------------------------------------------------------
(* One request to POST /api/check-password                                 *)

SITE == "deadcredentials.example"

\* a same-origin request of the page, from the client address `forwarded`
PageRequest(forwarded, pw, tone) ==
    [origin    |-> {[localhost |-> FALSE, host |-> SITE]},
     referer   |-> {[localhost |-> FALSE, host |-> SITE]},
     host      |-> SITE,
     forwarded |-> forwarded,
     json      |-> {[password |-> pw, tone |-> tone]}]

CLIENT == {<<"203.0.113.7", "10.0.0.1">>}

PromptAlphabet == {"g", "o", "0"}

MaxPromptLen == 3   \* every string over PromptAlphabet up to this length

PromptPasswords ==
    UNION { [1..n -> PromptAlphabet] : n \in 0..MaxPromptLen }
        \cup { <<"p","a","s","s","w","o","r","d">>, <<"d","r","o","w","s","s","a","p">>,
               <<"g","G","!","0">>, <<"o","G","!","0">>,
               <<"J","o","h","n","1","9","8","5">>, [k \in 1..129 |-> "a"] }

Tones == validTones \cup {"pirate"}

Founds == {{}, {0}, {1234567}}

\* the requests POST is given: the page's, and one without a password
PromptRequests ==
    { PageRequest(CLIENT, {pw}, tone) : pw \in PromptPasswords, tone \in Tones }
        \cup { PageRequest(CLIENT, {}, "roast") }

\* the server's state after POST has returned r for the request req
Serve(req, r) ==
    LET ip == getClientIP(req.forwarded)
    IN  /\ request' = {req}
        /\ response' = {[status |-> r.status, body |-> r.body]}
        /\ map' = r.map
        /\ answered' =
               IF r.status = 403 THEN answered
               ELSE MapSet(answered, ip,
                           (IF ip \in DOMAIN answered THEN answered[ip] ELSE <<>>)
                               \o <<[time |-> now, status |-> r.status]>>)

\* POST called on req at the time `now`
Post(req, found) ==
    /\ Serve(req, POST(req, found, map, now))
    /\ UNCHANGED <<now, analyzerVars, deathVars, calls, pageVars, batchVars>>

InitPrompt ==
    /\ AnalyzerStart /\ DeathStart /\ CallsStart
    /\ ServerStart
    /\ PageStart /\ session = <<>>
    /\ BatchStart /\ unique = <<>>

\* one request on a server that has not answered any
NextPrompt ==
    /\ response = {}
    /\ \E req \in PromptRequests, found \in Founds : Post(req, found)

SpecPrompt == InitPrompt /\ [][NextPrompt]_vars

----------------------------------------------------------------------------
(* Requests of two clients to POST /api/check-password, over time          *)

MaxRequests == 12   \* requests that reach the limiter in one run

\* the instants at which requests arrive
Instants == {0, 60000, 60001}

GOD == <<"g","o","d">>

\* the page's request from behind a proxy, the same without the
\* x-forwarded-for header, and a request sent by another site
LimiterRequests ==
    { PageRequest(CLIENT, {GOD}, "roast"),
      PageRequest({}, {GOD}, "roast"),
      [PageRequest(CLIENT, {GOD}, "roast") EXCEPT
          !.origin = {[localhost |-> FALSE, host |-> "evil.example"]}] }

RECURSIVE SumLen(_, _)
SumLen(f, keys) ==
    IF keys = {} THEN 0
    ELSE LET k == CHOOSE x \in keys : TRUE
         IN  Len(f[k]) + SumLen(f, keys \ {k})

\* time passes between two requests
Tick ==
    /\ \E t \in Instants : t > now /\ now' = t
    /\ UNCHANGED <<map, request, response, answered,
                   analyzerVars, deathVars, calls, pageVars, batchVars>>

Request ==
    /\ SumLen(answered, DOMAIN answered) < MaxRequests
    /\ \E req \in LimiterRequests : Post(req, {0})

InitLimiter ==
    /\ AnalyzerStart /\ DeathStart /\ CallsStart
    /\ ServerStart
    /\ PageStart /\ session = <<>>
    /\ BatchStart /\ unique = <<>>

NextLimiter == Tick \/ Request

SpecLimiter == InitLimiter /\ [][NextLimiter]_vars

----------------------------------------------------------------------------
(* The limiter's cleanup timer running between the requests                *)

\* the callback of setInterval with now >= entry.resetTime
cleanupAtReset(m, t) ==
    [k \in { x \in DOMAIN m : ~(t >= m[x].resetTime) } |-> m[k]]

\* lines 76-83, the callback of setInterval run at time t on the map m:
\* every entry with now > entry.resetTime is deleted
cleanup(m, t) ==
    [k \in { x \in DOMAIN m : ~(t > m[x].resetTime) } |-> m[k]]

\* the page's request from behind a proxy and the same without the
\* x-forwarded-for header: two keys of the limiter
SweepRequests ==
    { PageRequest(CLIENT, {GOD}, "roast"), PageRequest({}, {GOD}, "roast") }

\* the timer comes due; when it does, relative to the requests, is open
Sweep ==
    /\ map' = cleanup(map, now)
    /\ UNCHANGED <<now, request, response, answered,
                   analyzerVars, deathVars, calls, pageVars, batchVars>>

SweepRequest ==
    /\ SumLen(answered, DOMAIN answered) < MaxRequests
    /\ \E req \in SweepRequests : Post(req, {0})

InitSweep ==
    /\ AnalyzerStart /\ DeathStart /\ CallsStart
    /\ ServerStart
    /\ PageStart /\ session = <<>>
    /\ BatchStart /\ unique = <<>>

NextSweep == Tick \/ SweepRequest \/ Sweep

SpecSweep == InitSweep /\ [][NextSweep]_vars

----------------------------------------------------------------------------
(* components/BatchProcessor: processPasswords on an uploaded list         *)

\* String.prototype.trim() for the space character
RECURSIVE trim(_)
trim(pw) ==
    IF pw # <<>> /\ Head(pw) = " " THEN trim(Tail(pw))
    ELSE IF pw # <<>> /\ pw[Len(pw)] = " " THEN trim(SubSeq(pw, 1, Len(pw) - 1))
    ELSE pw

\* [...new Set(list)]: the first occurrence of each element, in order
Unique(list) ==
    LET first == { k \in DOMAIN list : \A j \in 1..(k - 1) : list[j] # list[k] }
    IN  [m \in 1..Cardinality(first) |->
            list[CHOOSE k \in first : Cardinality({ j \in first : j <= k }) = m]]

\* the k-th password of an uploaded file: "pw" and the decimal digits of k
BatchPassword(k) ==
    <<"p", "w">>
        \o (IF k >= 100 THEN <<DigitChars[((k \div 100) % 10) + 1]>> ELSE <<>>)
        \o (IF k >= 10 THEN <<DigitChars[((k \div 10) % 10) + 1]>> ELSE <<>>)
        \o <<DigitChars[(k % 10) + 1]>>

\* a file of n different passwords, with a blank line and, at the end, its
\* first password once more
BatchFile(n) ==
    << <<" ", " ">> >> \o [k \in 1..n |-> BatchPassword(k)]
        \o (IF n > 0 THEN <<BatchPassword(1)>> ELSE <<>>)

BatchSizes == {0, 1, 10, 11, 12, 100, 101}

\* milliseconds from sending a request to receiving its response
Latencies == {100, 6000}

BatchSessions == [passwords : {BatchFile(n) : n \in BatchSizes}, latency : Latencies]

\* lines 106-114 and 116-124: the row pushed for a response
BatchResult(pw, r) ==
    IF r.status = 200
    THEN [password   |-> pw,
          masked     |-> maskPassword(pw),
          score      |-> r.body.characteristics.strengthScore,
          breachCount |-> r.body.breachCount,
          crackTime  |-> r.body.characteristics.estimatedCrackTime,
          deathCause |-> r.body.characteristics.deathCause,
          alive      |-> r.body.characteristics.strengthScore >= 80
                            /\ r.body.breachCount = 0]
    ELSE [password   |-> pw,
          masked     |-> maskPassword(pw),
          score      |-> 0,
          breachCount |-> -1,
          crackTime  |-> Label("error"),
          deathCause |-> "Analysis failed",
          alive      |-> FALSE]

\* lines 73-91: processPasswords up to the loop
ProcessPasswords ==
    /\ bpc = "idle"
    /\ LET u == Unique(SelectSeq(session.passwords, LAMBDA p : Len(trim(p)) > 0))
       IN  IF Len(u) = 0
           THEN /\ batchError' = "No valid passwords found in the file."
                /\ bpc' = "done"
                /\ UNCHANGED <<unique, index, batchResults, results, processing, progress>>
           ELSE IF Len(u) > 100
           THEN /\ batchError' = "Maximum 100 passwords per batch."
                /\ bpc' = "done"
                /\ UNCHANGED <<unique, index, batchResults, results, processing, progress>>
           ELSE /\ unique' = u
                /\ processing' = TRUE
                /\ batchError' = ""
                /\ results' = <<>>
                /\ progress' = [current |-> 0, total |-> Len(u)]
                /\ batchResults' = <<>>
                /\ index' = 0
                /\ bpc' = "loop"
    /\ UNCHANGED <<analyzerVars, deathVars, calls, serverVars, pageVars>>

\* lines 93-138: one iteration, from the fetch to setResults; the server
\* handles the request at the time `now` and the response arrives
\* session.latency later (the connection holds: fetch does not throw)
BatchFetch ==
    /\ bpc = "loop"
    /\ LET pw  == trim(unique[index + 1])
           req == PageRequest(CLIENT, {pw}, "victorian")
           r   == POST(req, {0}, map, now)
       IN  /\ Serve(req, r)
           /\ batchResults' = Append(batchResults, BatchResult(pw, r))
           /\ results' = Append(batchResults, BatchResult(pw, r))
    /\ progress' = [current |-> index + 1, total |-> Len(unique)]
    /\ now' = now + session.latency
    /\ IF index < Len(unique) - 1
       THEN bpc' = "wait" /\ UNCHANGED <<index, processing>>
       ELSE bpc' = "done" /\ index' = index + 1 /\ processing' = FALSE
    /\ UNCHANGED <<unique, batchError, analyzerVars, deathVars, calls, pageVars>>

\* lines 141-143 and i++: the 300 ms pause between two requests
BatchDelay ==
    /\ bpc = "wait"
    /\ now' = now + 300
    /\ index' = index + 1
    /\ bpc' = "loop"
    /\ UNCHANGED <<unique, batchResults, results, processing, progress, batchError,
                   map, request, response, answered,
                   analyzerVars, deathVars, calls, pageVars>>

InitBatch ==
    /\ AnalyzerStart /\ DeathStart /\ CallsStart
    /\ ServerStart
    /\ PageStart /\ session \in BatchSessions
    /\ BatchStart /\ unique = <<>>

NextBatch == ProcessPasswords \/ BatchFetch \/ BatchDelay

SpecBatch == InitBatch /\ [][NextBatch]_vars

----------------------------------------------------------------------------
(* app/page.tsx: handleSubmit, one password after another                  *)

MaxChecks == 26   \* passwords submitted in one session
MaxParts == 2     \* parts of one obituary stream

\* what is typed, and what the breach lookup returns for it ({}: it throws)
PagePasswords ==
    << <<"Z","k","7","#","m","Q","2","!">>,
       <<"g","k","5","z","#","9","k","0","z","7">>,
       <<"!","a","G","G","1","1","1">>,
       <<"Z","k","7","#","m","Q","2","!","v","R">>,
       <<"p","a","s","s","w","o","r","d">>,
       <<"Z","k","7","#","m","Q">> >>

PageFounds == << {0}, {0}, {0}, {3}, {1234567}, {} >>

\* the k-th submission of a session
Typed(k) == ((k - 1) % Len(PagePasswords)) + 1

\* pace: milliseconds from the end of a check to the next submission;
\* latency: from sending the request to its response; puter: whether the
\* puter script has loaded (typeof puter !== "undefined")
PageSessions == [pace : {1000}, latency : Latencies, puter : BOOLEAN]

\* line 614 with > in the place of >=
IsAliveAbove80(strengthScore, bc) == strengthScore > 80 /\ bc = 0

\* line 614
IsAlive(strengthScore, bc) == strengthScore >= 80 /\ bc = 0

\* lines 617-625 with prev.slice(0, 20)
AddToGraveyardKeep21(entry, prev) ==
    <<entry>> \o SubSeq(prev, 1, Min(20, Len(prev)))

\* lines 617-625: [entry, ...prev.slice(0, 19)]
AddToGraveyard(entry, prev) ==
    <<entry>> \o SubSeq(prev, 1, Min(19, Len(prev)))

\* the time of the next step of handleSubmit: the response arrives
\* session.latency after the request, the next submission comes session.pace
\* after the last check ended; `now` is the time of the last such step
NextEvent ==
    IF pc = "fetch" THEN now + session.latency
    ELSE IF pc = "idle" /\ checks # <<>> THEN now + session.pace
    ELSE now

\* a timeout that comes due before the next step runs before it
NoTimerDue == \A t \in confettiTimers : t > NextEvent

\* lines 585-592: handleSubmit up to the fetch
HandleSubmit ==
    /\ pc = "idle" /\ ~isLoading
    /\ NoTimerDue
    /\ Len(checks) < MaxChecks
    /\ isLoading' = TRUE
    /\ obituary' = <<>>
    /\ error' = ""
    /\ analysisData' = {}
    /\ passwordAlive' = FALSE
    /\ isStreaming' = TRUE
    /\ lastPassword' = PagePasswords[Typed(Len(checks) + 1)]
    /\ now' = IF checks = <<>> THEN now ELSE now + session.pace
    /\ pc' = "fetch"
    /\ UNCHANGED <<graveyard, totalChecked, showConfetti, confettiTimers, sound,
                   chat, session, checks, map, request, response, answered,
                   analyzerVars, deathVars, calls, batchVars>>

\* lines 594-653 and 665-671: the response arrives, session.latency after
\* the server handled the request at the time `now`
FetchDone ==
    /\ pc = "fetch"
    /\ NoTimerDue
    /\ now' = now + session.latency
    /\ LET req == PageRequest(CLIENT, {lastPassword}, "victorian")
           r   == POST(req, PageFounds[Typed(Len(checks) + 1)], map, now)
           alive == IsAlive(r.body.characteristics.strengthScore, r.body.breachCount)
       IN  /\ Serve(req, r)
           /\ checks' = Append(checks, [password |-> lastPassword,
                                        status   |-> r.status,
                                        body     |-> r.body,
                                        time     |-> now'])
           /\ IF r.status # 200
              THEN /\ error' = r.body.error
                   /\ isStreaming' = FALSE
                   /\ isLoading' = FALSE
                   /\ pc' = "idle"
                   /\ UNCHANGED <<analysisData, totalChecked, graveyard, passwordAlive,
                                  sound, showConfetti, confettiTimers, chat>>
              ELSE /\ analysisData' =
                          {[breachCount     |-> r.body.breachCount,
                            characteristics |-> r.body.characteristics,
                            maskedPassword  |-> r.body.maskedPassword,
                            dnaSegments     |-> analyzePasswordDNA(lastPassword)]}
                   /\ totalChecked' = totalChecked + 1
                   /\ graveyard' = AddToGraveyard(
                          [maskedPassword |-> r.body.maskedPassword,
                           score          |-> r.body.characteristics.strengthScore,
                           alive          |-> alive,
                           timestamp      |-> now'], graveyard)
                   /\ IF alive
                      THEN /\ passwordAlive' = TRUE
                           /\ isStreaming' = FALSE
                           /\ sound' = Append(sound, "victory chime")
                           /\ isLoading' = FALSE
                           /\ pc' = "idle"
                           /\ UNCHANGED <<error, showConfetti, confettiTimers, chat>>
                      ELSE /\ sound' = Append(sound, "death bell")
                           /\ showConfetti' = TRUE
                           /\ confettiTimers' = confettiTimers \cup {now' + 5000}
                           /\ UNCHANGED passwordAlive
                           /\ IF ~session.puter
                              THEN /\ error' = "AI service is still loading. Please try again in a moment."
                                   /\ isStreaming' = FALSE
                                   /\ isLoading' = FALSE
                                   /\ pc' = "idle"
                                   /\ UNCHANGED chat
                              ELSE /\ chat' = Append(chat,
                                         <<[role |-> "system", content |-> r.body.systemPrompt],
                                           [role |-> "user", content |-> r.body.userPrompt]>>)
                                   /\ pc' = "chat"
                                   /\ UNCHANGED <<error, isStreaming, isLoading>>
    /\ UNCHANGED <<obituary, lastPassword, session,
                   analyzerVars, deathVars, calls, batchVars>>

\* lines 656-661: a part of the stream arrives
ChatPart ==
    /\ pc = "chat"
    /\ Len(obituary) < MaxParts
    /\ obituary' = Append(obituary, "part")
    /\ UNCHANGED <<pc, isLoading, isStreaming, analysisData, passwordAlive, error,
                   graveyard, totalChecked, lastPassword, showConfetti, confettiTimers,
                   sound, chat, session, checks, serverVars,
                   analyzerVars, deathVars, calls, batchVars>>

\* lines 664 and 669: the stream ends
ChatDone ==
    /\ pc = "chat"
    /\ isStreaming' = FALSE
    /\ isLoading' = FALSE
    /\ pc' = "idle"
    /\ UNCHANGED <<obituary, analysisData, passwordAlive, error,
                   graveyard, totalChecked, lastPassword, showConfetti, confettiTimers,
                   sound, chat, session, checks, serverVars,
                   analyzerVars, deathVars, calls, batchVars>>

\* lines 665-669: puter.ai.chat or the stream throws
ChatFail ==
    /\ pc = "chat"
    /\ error' = "Something went wrong"
    /\ isStreaming' = FALSE
    /\ isLoading' = FALSE
    /\ pc' = "idle"
    /\ UNCHANGED <<obituary, analysisData, passwordAlive,
                   graveyard, totalChecked, lastPassword, showConfetti, confettiTimers,
                   sound, chat, session, checks, serverVars,
                   analyzerVars, deathVars, calls, batchVars>>

\* line 638: setTimeout(() => setShowConfetti(false), 5000) comes due
ConfettiOff ==
    /\ \E t \in confettiTimers :
           /\ t <= NextEvent
           /\ confettiTimers' = confettiTimers \ {t}
    /\ showConfetti' = FALSE
    /\ UNCHANGED <<pc, isLoading, obituary, isStreaming, analysisData, passwordAlive,
                   error, graveyard, totalChecked, lastPassword,
                   sound, chat, session, checks, serverVars,
                   analyzerVars, deathVars, calls, batchVars>>

InitPage ==
    /\ AnalyzerStart /\ DeathStart /\ CallsStart
    /\ ServerStart
    /\ PageStart /\ session \in PageSessions
    /\ BatchStart /\ unique = <<>>

NextPage ==
    HandleSubmit \/ FetchDone \/ ChatPart \/ ChatDone \/ ChatFail \/ ConfettiOff

SpecPage == InitPage /\ [][NextPage]_vars

----------------------------------------------------------------------------
(* The two entry points on passwords of keyboard neighbours, digits in a   *)
(* row, mixed case and characters outside ASCII                            *)

MaxDNALen == 4   \* every string over DNAAlphabet up to this length

DNAAlphabet == {"q", "w", "e", "W", "1", "2", "3", CAPITAL_I_DOT}

\* longer passwords: masked middles, a literal "*", U+0130 before, inside
\* and after a keyboard run, symbols of both kinds
DNASeeds == {
    <<"a","b","c","d","e">>, <<"a","b","c","d","e","f","g">>,
    <<"x","*","y","*","z","*","x","*">>, <<"*","*","*","*","*","*">>,
    <<"k","7","k","7","k","7">>, <<"K","7","k","#","k"," ","7","k">>,
    <<CAPITAL_I_DOT,"q","w","e","r","t","y">>,
    <<"q","w","e","r","t","y",CAPITAL_I_DOT>>,
    <<"a","s","d",CAPITAL_I_DOT,"z","x","c","v">>,
    <<CAPITAL_I_DOT,CAPITAL_I_DOT,"A","S","D","F">>,
    <<CAPITAL_I_DOT,"1","2","3","4">>,
    <<"p","a","s","s","w","o","r","d",CAPITAL_I_DOT>>,
    <<"Q","W","E","r","t","Y">>, <<"y","t","r","e","w","q">>,
    <<"x","q","w","e","x","p","o","i","x">>,
    <<"9","8","7","x","7","8","9">>, <<"1","1","2","2","3","3">>,
    <<"a","a","A","A","1","1","#","#">>, <<"A","B","C","1","2","4">>,
    <<"5","5","6","7","7","7","6","5">>, <<"q","W","e","1","1","#">> }

DNAPasswords ==
    UNION { [1..n -> DNAAlphabet] : n \in 0..MaxDNALen }
        \cup SeedPasswords \cup DNASeeds

InitDNA ==
    /\ password \in DNAPasswords
    /\ characteristics = {}
    /\ segments = {}
    /\ DeathStart /\ CallsStart /\ ServerStart
    /\ PageStart /\ session = <<>>
    /\ BatchStart /\ unique = <<>>

NextDNA == AnalyzePassword \/ AnalyzePasswordDNA

SpecDNA == InitDNA /\ [][NextDNA]_vars

----------------------------------------------------------------------------
(* Properties of the analyzer                                              *)

TypesUsed(r) ==
    Cardinality({ f \in {"hasLowercase", "hasUppercase", "hasNumbers", "hasSymbols"} : r[f] })

\* C1: for every input string, strengthScore is an integer between 0 and
\* 100, however negative the sum of points and penalties is.
C1_ScoreInRange ==
    \A r \in characteristics : r.strengthScore \in 0..100

\* a common, keyboard-pattern, sequential, short password: the sum is
\* negative and the score is 0
C1_Witness ==
    \E r \in characteristics :
        /\ r.isCommon /\ r.hasKeyboardPattern /\ r.hasSequentialNumbers
        /\ r.length < 6
        /\ r.strengthScore = 0

Points(cond, n) == IF cond THEN n ELSE 0

Clamp(lo, hi, v) == IF v < lo THEN lo ELSE IF v > hi THEN hi ELSE v

\* C2: strengthScore is the clamp to [0,100] of min(4*length, 40), plus 5,
\* 10, 10, 15 for lowercase, uppercase, digits, symbols, minus 40, 15, 10,
\* 10, 20 for common, keyboard pattern, repeating characters, sequential
\* numbers, length < 6, plus 10 for three classes and 10 more for four.
C2_ScoreFormula ==
    \A r \in characteristics :
        r.strengthScore =
            Clamp(0, 100,
                  (IF 4 * r.length < 40 THEN 4 * r.length ELSE 40)
                + Points(r.hasLowercase, 5) + Points(r.hasUppercase, 10)
                + Points(r.hasNumbers, 10) + Points(r.hasSymbols, 15)
                - Points(r.isCommon, 40) - Points(r.hasKeyboardPattern, 15)
                - Points(r.hasRepeatingChars, 10)
                - Points(r.hasSequentialNumbers, 10)
                - Points(r.length < 6, 20)
                + Points(TypesUsed(r) >= 3, 10) + Points(TypesUsed(r) = 4, 10))

\* four classes, two penalties, a length between 6 and 10, a score inside
\* the range
C2_Witness ==
    \E r \in characteristics :
        /\ TypesUsed(r) = 4
        /\ r.hasKeyboardPattern /\ r.hasSequentialNumbers
        /\ r.length >= 6 /\ r.length < 10
        /\ r.strengthScore > 0 /\ r.strengthScore < 100

\* C3: analyzePasswordDNA returns one segment per character, in order
\* (segment i shows character i or its mask); the list is empty only for
\* the empty password.
C3_OneSegmentPerChar ==
    \A segs \in segments :
        /\ DOMAIN segs = 1..Len(password)
        /\ \A i \in DOMAIN segs : segs[i].char \in {password[i], "*"}
        /\ (segs = <<>>) <=> (password = <<>>)

\* a password long enough to have masked and shown characters
C3_Witness ==
    \E segs \in segments :
        /\ Len(password) >= 6
        /\ \E i \in DOMAIN segs : segs[i].char = "*" /\ password[i] # "*"
        /\ \E i \in DOMAIN segs : segs[i].char # "*"

INSTANTLY == "instantly (common password)"

\* C4: a password flagged isCommon has death cause "dictionary attack" and
\* crack time "instantly (common password)", whatever its length and
\* classes; no other password has that crack time.
C4_CommonIsInstant ==
    \A r \in characteristics :
        /\ r.isCommon =>
              /\ r.deathCause = "dictionary attack"
              /\ r.estimatedCrackTime = [count |-> 0, unit |-> INSTANTLY]
        /\ ~r.isCommon => r.estimatedCrackTime.unit # INSTANTLY

\* a common password found by de-leeting, with a symbol, whose brute-force
\* time would be hours
C4_Witness ==
    \E r \in characteristics :
        /\ r.isCommon /\ r.hasSymbols /\ r.length >= 8
        /\ r.estimatedCrackTime.unit = INSTANTLY

\* The breach count, an absent one counting as 0
Count(bc) == IF bc = {} THEN 0 ELSE CHOOSE n \in bc : TRUE

\* The rules of the death-cause classifier, in priority order
DeathRules(c, n) ==
    << <<c.isCommon, "dictionary attack">>,
       <<n > 1000, "credential stuffing">>,
       <<(c.hasKeyboardPattern \/ c.hasSequentialNumbers) /\ ~c.hasSymbols,
         "pattern-based attack">>,
       <<c.length <= 6, "brute force">>,
       <<c.length <= 8 /\ ~c.hasSymbols /\ ~c.hasUppercase, "brute force">>,
       <<n > 0, "credential stuffing">>,
       <<TRUE, "social engineering">> >>

FirstMatch(rules) ==
    rules[CHOOSE k \in DOMAIN rules :
              rules[k][1] /\ \A j \in 1..(k - 1) : ~rules[j][1]][2]

\* C5: determineDeathCause returns the label of the first matching rule,
\* for every combination of flags, length and optional breach count.
C5_FirstMatchingRule ==
    \A c \in chars : \A label \in cause :
        label = FirstMatch(DeathRules(c, Count(breachCount)))

\* the sixth rule decides: a long password with a symbol and a small breach
\* count
C5_Witness ==
    \E c \in chars :
        /\ breachCount = {1}
        /\ c.length > 8 /\ c.hasSymbols /\ ~c.isCommon
        /\ cause = {"credential stuffing"}

\* The claim's charset size: 26 + 26 + 10 + 33 over the classes present,
\* 26 when none is
ClaimCharset(r) ==
    LET n == Points(r.hasLowercase, 26) + Points(r.hasUppercase, 26)
           + Points(r.hasNumbers, 10) + Points(r.hasSymbols, 33)
    IN  IF n = 0 THEN 26 ELSE n

\* The units of the counted labels with their length in seconds, and the
\* bound (in seconds) below which each applies
ClaimYear == BigMul(BigMul(<<1>>, 86400), 365)
ClaimUnits ==
    << [unit |-> "seconds",        size |-> <<1>>,                   below |-> BigMul(<<1>>, 60)],
       [unit |-> "minutes",        size |-> BigMul(<<1>>, 60),       below |-> BigMul(<<1>>, 3600)],
       [unit |-> "hours",          size |-> BigMul(<<1>>, 3600),     below |-> BigMul(<<1>>, 86400)],
       [unit |-> "days",           size |-> BigMul(<<1>>, 86400),    below |-> ClaimYear],
       [unit |-> "years",          size |-> ClaimYear,               below |-> BigMul(ClaimYear, 1000)],
       [unit |-> "thousand years", size |-> BigMul(ClaimYear, 1000),
                                   below |-> BigMul(BigMul(ClaimYear, 1000), 1000)] >>

\* d seconds at 10^10 guesses a second
AtRate(d) == BigMul(BigMul(d, 100000), 100000)

\* k = ceil(N / (10^10 * size)): (k - 1) * size < N / 10^10 <= k * size
IsCeil(k, N, size) ==
    /\ k >= 1
    /\ ~BigLess(AtRate(BigMul(size, k)), N)
    /\ k > 1 => BigLess(AtRate(BigMul(size, k - 1)), N)

\* C6: for a password that is not common, estimatedCrackTime is the bucket
\* of seconds = charsetSize^length / 10^10: below 1 "less than a second",
\* then seconds, minutes, hours, days, years, thousand years, each with the
\* ceiling of seconds over the unit, and "millions of years" from 1,000,000
\* years on.
C6_CrackTimeBuckets ==
    \A r \in characteristics :
        ~r.isCommon =>
            LET N == MathPow(ClaimCharset(r), r.length)
                t == r.estimatedCrackTime
            IN  /\ BigLess(N, AtRate(<<1>>)) <=> t = [count |-> 0, unit |-> "less than a second"]
                /\ \A k \in DOMAIN ClaimUnits :
                      LET u == ClaimUnits[k]
                          from == IF k = 1 THEN <<1>> ELSE ClaimUnits[k - 1].below
                      IN  (~BigLess(N, AtRate(from)) /\ BigLess(N, AtRate(u.below)))
                              <=> (t.unit = u.unit /\ IsCeil(t.count, N, u.size))
                /\ ~BigLess(N, AtRate(ClaimUnits[6].below))
                       <=> t = [count |-> 0, unit |-> "millions of years"]

\* a password whose time is a fractional number of thousands of years
C6_Witness ==
    \E r \in characteristics :
        /\ ~r.isCommon
        /\ r.estimatedCrackTime.unit = "thousand years"
        /\ r.estimatedCrackTime.count > 1

CrackOrder ==
    <<"less than a second", "seconds", "minutes", "hours", "days", "years",
      "thousand years", "millions of years">>

CrackRank(t) == CHOOSE k \in DOMAIN CrackOrder : CrackOrder[k] = t.unit

\* a is not later than b: an earlier bucket, or the same with no larger number
CrackLeq(a, b) ==
    \/ CrackRank(a) < CrackRank(b)
    \/ CrackRank(a) = CrackRank(b) /\ a.count <= b.count

\* C7: of two passwords that are not common and have the same four class
\* flags, the longer one's crack time is never in an earlier bucket, nor a
\* smaller number in the same bucket.  Stated for the analysed password
\* against every shorter length that a password with its flags can have.
C7_CrackTimeMonotone ==
    \A r \in characteristics :
        ~r.isCommon =>
            \A n \in TypesUsed(r)..(r.length - 1) :
                CrackLeq(estimateCrackTime(SubSeq(password, 1, n), r),
                         r.estimatedCrackTime)

\* a password one character longer than one of the same bucket, with a
\* larger number of days
C7_Witness ==
    \E r \in characteristics :
        /\ ~r.isCommon /\ r.length > TypesUsed(r)
        /\ r.estimatedCrackTime.unit = "days"
        /\ LET shorter == estimateCrackTime(SubSeq(password, 1, r.length - 1), r)
           IN  shorter.unit = "days" /\ shorter.count < r.estimatedCrackTime.count

\* The detectors in their fixed order; the two length tiers share a place
DetectorOrder ==
    << {"common password"},
       {"leet-speak substitution of a common password"},
       {"keyboard pattern"},
       {"repeating characters"},
       {"sequential numbers"},
       {"numbers only"},
       {"letters only"},
       {"extremely short", "very short"},
       {"name + numbers pattern"},
       {"word + short number suffix"},
       {"contains a year"} >>

\* C8: patterns is a duplicate-free subsequence of the detector order: at
\* most 11 entries, each a known tag (so never the empty string), each
\* detector at most once and in the fixed order.
C8_PatternsOrdered ==
    \A r \in characteristics :
        /\ Len(r.patterns) <= 11
        /\ \A i \in DOMAIN r.patterns :
              \E k \in DOMAIN DetectorOrder : r.patterns[i] \in DetectorOrder[k]
        /\ \A i, j \in DOMAIN r.patterns :
              i < j =>
                 \E k, l \in DOMAIN DetectorOrder :
                     /\ k < l
                     /\ r.patterns[i] \in DetectorOrder[k]
                     /\ r.patterns[j] \in DetectorOrder[l]

\* a password with five tags, a length tier among them
C8_Witness ==
    \E r \in characteristics :
        /\ Len(r.patterns) >= 5
        /\ \E i \in DOMAIN r.patterns : r.patterns[i] = "extremely short"

COMMON_TAG == "common password"
LEET_TAG == "leet-speak substitution of a common password"

HasTag(r, tag) == \E i \in DOMAIN r.patterns : r.patterns[i] = tag

\* C9 as claimed: the leet tag appears only when the de-leeted form differs
\* from the lower-cased password and is in the lexicon while the lower-cased
\* password is not; so the two tags never appear together.
C9_LeetOnlyWhenRawNotCommon ==
    \A r \in characteristics :
        /\ HasTag(r, LEET_TAG) =>
              /\ deLeet(password) # toLowerCase(password)
              /\ Join(deLeet(password)) \in COMMON_PASSWORDS
              /\ Join(toLowerCase(password)) \notin COMMON_PASSWORDS
        /\ ~(HasTag(r, COMMON_TAG) /\ HasTag(r, LEET_TAG))

\* C9 amended: the leet tag appears exactly when the de-leeted form differs
\* from the lower-cased password and is in the lexicon, whether or not the
\* lower-cased password is in the lexicon too; both tags appear together
\* exactly when the lower-cased password and its different de-leeted form
\* are both lexicon entries.
C9_LeetWhenDeLeetedCommon ==
    \A r \in characteristics :
        LET differs == deLeet(password) # toLowerCase(password)
            leetIn  == Join(deLeet(password)) \in COMMON_PASSWORDS
            rawIn   == Join(toLowerCase(password)) \in COMMON_PASSWORDS
        IN  /\ HasTag(r, LEET_TAG) <=> (differs /\ leetIn)
            /\ (HasTag(r, COMMON_TAG) /\ HasTag(r, LEET_TAG))
                   <=> (rawIn /\ differs /\ leetIn)

\* a lexicon entry whose de-leeted form is another lexicon entry: both tags
C9_Witness ==
    \E r \in characteristics : HasTag(r, COMMON_TAG) /\ HasTag(r, LEET_TAG)

\* C10: analyzePassword("") returns a well-formed result: length 0, score
\* 0, no character class, not common, no keyboard, repeat or sequential flag.
C10_EmptyPassword ==
    password = <<>> =>
        \A r \in characteristics :
            /\ r.length = 0
            /\ r.strengthScore = 0
            /\ ~r.hasUppercase /\ ~r.hasLowercase /\ ~r.hasNumbers /\ ~r.hasSymbols
            /\ ~r.isCommon
            /\ ~r.hasKeyboardPattern /\ ~r.hasRepeatingChars /\ ~r.hasSequentialNumbers

\* the empty password has been analysed and a result returned
C10_Witness ==
    password = <<>> /\ characteristics # {}

\* the substitution table of the claim, as pairs <<from, to>>
ClaimLeetPairs ==
    { <<"0","o">>, <<"1","i">>, <<"3","e">>, <<"4","a">>,
      <<"5","s">>, <<"7","t">>, <<"@","a">>, <<"!","i">> }

ClaimDeLeeted(pw) ==
    [i \in DOMAIN pw |->
        IF \E p \in ClaimLeetPairs : p[1] = pw[i]
        THEN (CHOOSE p \in ClaimLeetPairs : p[1] = pw[i])[2]
        ELSE LowerChar(pw[i])]

\* C17: isCommon is true exactly when the lower-cased password is a lexicon
\* entry or the password with 0,1,3,4,5,7,@,! replaced by o,i,e,a,s,t,a,i and
\* every other character lower-cased is a lexicon entry.
C17_IsCommonIffLexicon ==
    \A r \in characteristics :
        r.isCommon <=>
            \/ Join(toLowerCase(password)) \in COMMON_PASSWORDS
            \/ Join(ClaimDeLeeted(password)) \in COMMON_PASSWORDS

\* a password with an upper-case letter that is common through its de-leeted
\* form only
C17_Witness ==
    \E r \in characteristics :
        /\ r.isCommon /\ r.hasUppercase
        /\ Join(toLowerCase(password)) \notin COMMON_PASSWORDS

DigitValue(c) == CHOOSE k \in 0..9 : DigitChars[k + 1] = c

\* three decimal digits at i, i+1, i+2 going up by one or down by one
ClaimRun(pw, i) ==
    /\ pw[i] \in DigitSet /\ pw[i + 1] \in DigitSet /\ pw[i + 2] \in DigitSet
    /\ LET d1 == DigitValue(pw[i])
           d2 == DigitValue(pw[i + 1])
           d3 == DigitValue(pw[i + 2])
       IN  \/ d2 = d1 + 1 /\ d3 = d2 + 1
           \/ d2 = d1 - 1 /\ d3 = d2 - 1

\* C18: hasSequentialNumbers is true exactly when three consecutive
\* characters are digits that go up by one or down by one, with no step
\* between 9 and 0; three identical digits do not set it and set
\* hasRepeatingChars.
C18_SequentialDigits ==
    \A r \in characteristics :
        /\ r.hasSequentialNumbers <=>
               \E i \in 1..(Len(password) - 2) : ClaimRun(password, i)
        /\ \A i \in 1..(Len(password) - 2) :
               (password[i] \in DigitSet /\ password[i + 1] = password[i]
                                         /\ password[i + 2] = password[i])
                   => r.hasRepeatingChars
        /\ (\A i \in DOMAIN password : password[i] = password[1] /\ password[i] \in DigitSet)
               => ~r.hasSequentialNumbers

\* a descending run of digits sets the flag, without the repeat flag
C18_Witness ==
    \E r \in characteristics :
        /\ r.hasSequentialNumbers /\ ~r.hasRepeatingChars
        /\ \E i \in 1..(Len(password) - 2) :
               /\ ClaimRun(password, i)
               /\ DigitValue(password[i]) > DigitValue(password[i + 1])

\* the password is `a` characters of class A followed by `b` of class B
ClaimTwoParts(pw, from, a, A, b, B) ==
    /\ Len(pw) = from - 1 + a + b
    /\ \A i \in from..(from + a - 1) : pw[i] \in A
    /\ \A i \in (from + a)..Len(pw) : pw[i] \in B

ClaimYearAt(pw, i) ==
    /\ \A j \in i..(i + 3) : pw[j] \in DigitSet
    /\ 1000 * DigitValue(pw[i]) + 100 * DigitValue(pw[i + 1])
         + 10 * DigitValue(pw[i + 2]) + DigitValue(pw[i + 3]) \in 1950..2029

\* C19: each shape tag is in patterns exactly when its shape holds: all
\* digits, all ASCII letters, length <= 4, length 5 or 6, one upper-case
\* letter then lower-case letters then digits, lower-case letters then 1 to 4
\* digits, four consecutive characters that read as a year 1950..2029.
C19_ShapeTags ==
    \A r \in characteristics :
        LET n == Len(password)
        IN  /\ HasTag(r, "numbers only") <=>
                   (n > 0 /\ Range(password) \subseteq DigitSet)
            /\ HasTag(r, "letters only") <=>
                   (n > 0 /\ Range(password) \subseteq (LowerSet \cup UpperSet))
            /\ HasTag(r, "extremely short") <=> n <= 4
            /\ HasTag(r, "very short") <=> (5 <= n /\ n <= 6)
            /\ ~(HasTag(r, "extremely short") /\ HasTag(r, "very short"))
            /\ HasTag(r, "name + numbers pattern") <=>
                   /\ n >= 3 /\ password[1] \in UpperSet
                   /\ \E a \in 1..n, b \in 1..n :
                          ClaimTwoParts(password, 2, a, LowerSet, b, DigitSet)
            /\ HasTag(r, "word + short number suffix") <=>
                   \E a \in 1..n, b \in 1..4 :
                       ClaimTwoParts(password, 1, a, LowerSet, b, DigitSet)
            /\ HasTag(r, "contains a year") <=>
                   \E i \in 1..(n - 3) : ClaimYearAt(password, i)

\* a capitalised name followed by a year carries both tags and no length tag
C19_Witness ==
    \E r \in characteristics :
        /\ HasTag(r, "name + numbers pattern") /\ HasTag(r, "contains a year")
        /\ ~HasTag(r, "very short") /\ ~HasTag(r, "word + short number suffix")

\* the row and the column of a key, for the characters that are on a row
OnKeyboard(c) == \E r \in DOMAIN KEYBOARDS : \E k \in DOMAIN KEYBOARDS[r] : KEYBOARDS[r][k] = c
KeyRow(c) == CHOOSE r \in DOMAIN KEYBOARDS : \E k \in DOMAIN KEYBOARDS[r] : KEYBOARDS[r][k] = c
KeyColumn(c) == CHOOSE k \in DOMAIN KEYBOARDS[KeyRow(c)] : KEYBOARDS[KeyRow(c)][k] = c

\* the lower-cased characters at i-2, i-1, i are neighbours on one row,
\* read in the direction `step` (1: left to right, -1: right to left)
ClaimKeys(pw, i, step) ==
    LET a == LowerChar(pw[i - 2])
        b == LowerChar(pw[i - 1])
        c == LowerChar(pw[i])
    IN  /\ OnKeyboard(a) /\ OnKeyboard(b) /\ OnKeyboard(c)
        /\ KeyRow(a) = KeyRow(b) /\ KeyRow(b) = KeyRow(c)
        /\ KeyColumn(b) = KeyColumn(a) + step
        /\ KeyColumn(c) = KeyColumn(b) + step

\* the four rules of the claim applied in order to <<strength, reason>>;
\* "symbol" is the segmenter's special-character class
ClaimRated(pw, i) ==
    LET s0 == <<2, "acceptable character">>
        s1 == IF i >= 3 /\ ClaimKeys(pw, i, 1)
                  THEN <<0, "keyboard pattern sequence">>
              ELSE IF i >= 3 /\ ClaimKeys(pw, i, -1)
                  THEN <<0, "reversed keyboard pattern">>
              ELSE s0
        s2 == IF i >= 3 /\ ClaimRun(pw, i - 2)
                  THEN <<0, "sequential number run">>
              ELSE s1
        s3 == IF i >= 3 /\ pw[i - 1] = pw[i] /\ pw[i - 2] = pw[i]
                  THEN <<0, "repeating character">>
              ELSE IF i >= 2 /\ pw[i - 1] = pw[i] /\ s2[1] > 0
                  THEN <<IF s2[1] < 1 THEN s2[1] ELSE 1, "repeated character">>
              ELSE s2
        anyLower  == Range(pw) \cap LowerSet # {}
        anyLetter == Range(pw) \cap (LowerSet \cup UpperSet) # {}
    IN  IF s3[1] < 2 THEN s3
        ELSE IF pw[i] \in SPECIAL_CHARS THEN <<3, "special character - excellent">>
        ELSE IF pw[i] \in UpperSet /\ anyLower THEN <<3, "mixed case - strong">>
        ELSE IF pw[i] \in DigitSet /\ anyLetter THEN <<2, "number mixed with letters">>
        ELSE IF pw[i] \in LowerSet THEN <<1, "lowercase letter only">>
        ELSE IF pw[i] \in DigitSet THEN <<1, "digit only">>
        ELSE s3

AcceptedIn(k, t) ==
    { b \in DOMAIN answered[k] :
          /\ answered[k][b].status # 429
          /\ answered[k][b].time >= t
          /\ answered[k][b].time < t + 60000 }

\* C12: for every client key and every interval of 60 seconds, at most 10
\* requests of that key arriving in the interval are accepted (answered
\* with a status other than 429).
C12_TenPerMinute ==
    \A k \in DOMAIN answered :
        \A a \in DOMAIN answered[k] :
            Cardinality(AcceptedIn(k, answered[k][a].time)) <= 10

\* C13: a finished batch of n <= 100 unique non-blank passwords has n rows,
\* one per password, each with the score, crack time and death cause of its
\* password's analysis and the breach count of the lookup; no row is
\* "Analysis failed".
C13_BatchAllAnalysed ==
    (bpc = "done" /\ batchError = "") =>
        /\ Len(results) = Len(unique)
        /\ \A k \in DOMAIN results :
               /\ results[k].password = trim(unique[k])
               /\ results[k].deathCause # "Analysis failed"
               /\ results[k].score = analyzePassword(trim(unique[k])).strengthScore
               /\ results[k].breachCount = 0

\* the finished checks that the API answered with 200, oldest first
Successful == SelectSeq(checks, LAMBDA c : c.status = 200)

\* the password of a successful check survives: score at least 80 and no
\* breach
Survives(c) ==
    c.body.characteristics.strengthScore >= 80 /\ c.body.breachCount = 0

Dead == SelectSeq(Successful, LAMBDA c : ~Survives(c))

\* what C14 says of the page apart from the stream: passwordAlive is set
\* exactly after a successful check of a surviving password, streaming has
\* then stopped; each successful check plays the chime if the password
\* survives and the bell if not, and after a dead one the confetti shows
\* until its timeout of five seconds, or an earlier one still pending,
\* comes due
AliveExactlyWhenStrongAndUnbreached ==
    LET done == pc # "fetch" /\ checks # <<>> /\ checks[Len(checks)].status = 200
    IN  /\ passwordAlive <=> (done /\ Survives(checks[Len(checks)]))
        /\ passwordAlive => (~isStreaming /\ pc = "idle")
        /\ sound = [k \in DOMAIN Successful |->
                       IF Survives(Successful[k]) THEN "victory chime"
                       ELSE "death bell"]
        /\ (done /\ ~Survives(checks[Len(checks)])
                 /\ (checks[Len(checks)].time + 5000) \in confettiTimers
                 /\ \A k \in DOMAIN Dead :
                        \/ Dead[k].time = checks[Len(checks)].time
                        \/ Dead[k].time + 5000 < checks[Len(checks)].time)
               => showConfetti

C15_VaultLast20 ==
    LET k == Len(Successful)
    IN  /\ totalChecked = k
        /\ Len(graveyard) = IF k < 20 THEN k ELSE 20
        /\ \A m \in DOMAIN graveyard :
               LET c == Successful[k + 1 - m]
               IN  graveyard[m] =
                       [maskedPassword |-> c.body.maskedPassword,
                        score          |-> c.body.characteristics.strengthScore,
                        alive          |-> Survives(c),
                        timestamp      |-> c.time]
        /\ \A m \in 1..(Len(graveyard) - 1) :
               graveyard[m].timestamp > graveyard[m + 1].timestamp

\* more than 20 successful checks and a failed one: the vault is full and
\* the oldest entries are gone
C15_Witness ==
    /\ Len(Successful) > 20
    /\ Len(checks) > Len(Successful)
    /\ Len(graveyard) = 20
    /\ graveyard[20].timestamp > Successful[1].time

\* the row windows of the claim: three neighbouring letters of one of the
\* letter rows, left to right
LetterRows == <<KEYBOARD_ROW_1, KEYBOARD_ROW_2, KEYBOARD_ROW_3>>

\* the lower case of one character of the password
ClaimLower(c) == IF c = CAPITAL_I_DOT THEN <<"i", COMBINING_DOT>> ELSE <<LowerChar(c)>>

\* the characters i-2..i of pw (1-based: the code's i is i - 1), lower-cased,
\* are a contiguous substring of a letter row
ClaimLetterWindow(pw, i) ==
    /\ i >= 3
    /\ \E r \in DOMAIN LetterRows :
           indexOfFound(LetterRows[r],
               ClaimLower(pw[i - 2]) \o ClaimLower(pw[i - 1]) \o ClaimLower(pw[i]))

\* C21: every segment whose character closes a three-letter window of a
\* letter row (the characters lower-cased) has strength 0 and the reason
\* "keyboard pattern sequence"; the first two characters of a run are not
\* marked by the rule.
C21_LetterRowWindow ==
    \A segs \in segments :
        \A i \in DOMAIN segs :
            /\ ClaimLetterWindow(password, i)
                   => (segs[i].strength = 0 /\ segs[i].reason = "keyboard pattern sequence")
            /\ i <= 2 => segs[i].reason # "keyboard pattern sequence"

\* the claim's condition for showing the character of the 0-based index i
\* of a password of length n
ClaimShown(i, n) == i < 2 \/ i >= n - 2 \/ n <= 5

\* C22: the char field of a segment is the literal character when its
\* 0-based index i has i < 2, i >= length - 2 or length <= 5, and "*"
\* otherwise, so that length n >= 6 gives n - 4 masked segments; strength and
\* reason are those of the rules applied to the real characters (stated for
\* the passwords whose lower case has their length).
C22_MaskIsDisplayOnly ==
    \A segs \in segments :
        LET n == Len(password)
        IN  /\ \A k \in DOMAIN segs :
                   segs[k].char = IF ClaimShown(k - 1, n) THEN password[k] ELSE "*"
            /\ n >= 6 =>
                   Cardinality({ k \in DOMAIN segs : ~ClaimShown(k - 1, n) }) = n - 4
            /\ (\A k \in DOMAIN password : password[k] # CAPITAL_I_DOT) =>
                   \A k \in DOMAIN segs :
                       <<segs[k].strength, segs[k].reason>> = ClaimRated(password, k)

\* a masked lowercase letter rated as a lowercase letter, and a shown "*"
\* rated as a special character, in a password of length 8
C22_Witness ==
    \E segs \in segments :
        /\ Len(password) = 8
        /\ \E k \in DOMAIN segs :
               /\ segs[k].char = "*" /\ password[k] = "y"
               /\ segs[k].reason = "lowercase letter only"
        /\ \E k \in DOMAIN segs :
               /\ segs[k].char = "*" /\ password[k] = "*"
               /\ ClaimShown(k - 1, 8)
               /\ segs[k].reason = "special character - excellent"

\* the reasons given by the three window rules
WindowReasons ==
    {"keyboard pattern sequence", "reversed keyboard pattern",
     "sequential number run", "repeating character", "repeated character"}

\* C23: every character that is neither an ASCII letter nor a digit (the
\* class of hasSymbols) and that no window rule has rated gets strength 3
\* and the reason "special character - excellent".
C23_SymbolsExcellent ==
    \A segs \in segments :
        \A i \in DOMAIN segs :
            (IsSymbol(password[i]) /\ segs[i].reason \notin WindowReasons)
                => (segs[i].strength = 3
                    /\ segs[i].reason = "special character - excellent")

\* the death causes the claim allows
LocalCauses ==
    {"dictionary attack", "pattern-based attack", "brute force", "social engineering"}

\* breach counts the lookup may return for a request
ClaimCounts == {{0}, {1}, {1000}, {1001}, {1234567}}

\* C24: the deathCause in a response of POST /api/check-password is never
\* "credential stuffing" but one of the four other causes, it is the cause
\* named in the prompt, and the same request answered with any other breach
\* count, above 1000 or not, gets the same cause in both places.
C24_CauseIgnoresBreaches ==
    \A q \in request, r \in response :
        r.status = 200 =>
            /\ r.body.characteristics.deathCause \in LocalCauses
            /\ r.body.userPrompt[7] =
                   <<"- Cause of death: ", r.body.characteristics.deathCause>>
            /\ \A found \in ClaimCounts :
                   LET other == POST(q, found, <<>>, 0)
                   IN  /\ other.status = 200
                       /\ other.body.breachCount \in found
                       /\ other.body.characteristics.deathCause
                              = r.body.characteristics.deathCause
                       /\ other.body.userPrompt[7] = r.body.userPrompt[7]

\* a password seen 1,234,567 times that the classifier, given the count,
\* would call credential stuffing, answered with "social engineering"
C24_Witness ==
    \E r \in response :
        /\ r.status = 200
        /\ r.body.breachCount > 1000
        /\ r.body.characteristics.deathCause = "social engineering"
        /\ determineDeathCause(r.body.characteristics, {r.body.breachCount})
               = "credential stuffing"

\* C25: in every result of analyzePassword, isCommon holds iff patterns has
\* the common tag or the leet tag, and each of hasKeyboardPattern,
\* hasRepeatingChars, hasSequentialNumbers holds iff patterns has its tag.
C25_FlagsMatchTags ==
    \A r \in characteristics :
        /\ r.isCommon <=> (HasTag(r, COMMON_TAG) \/ HasTag(r, LEET_TAG))
        /\ r.hasKeyboardPattern <=> HasTag(r, "keyboard pattern")
        /\ r.hasRepeatingChars <=> HasTag(r, "repeating characters")
        /\ r.hasSequentialNumbers <=> HasTag(r, "sequential numbers")

\* a password written with a capital and a leet digit that is common by its
\* de-leeted form only: the leet tag alone stands for isCommon
C25_Witness ==
    \E r \in characteristics :
        /\ r.isCommon /\ r.hasUppercase /\ r.hasNumbers
        /\ ~HasTag(r, COMMON_TAG) /\ HasTag(r, LEET_TAG)
        /\ ~r.hasKeyboardPattern /\ ~HasTag(r, "keyboard pattern")

\* the reasons that go with each strength
ReasonsOf ==
    [s \in 0..3 |->
        CASE s = 0 -> {"keyboard pattern sequence", "reversed keyboard pattern",
                       "sequential number run", "repeating character"}
          [] s = 1 -> {"repeated character", "lowercase letter only", "digit only"}
          [] s = 2 -> {"acceptable character", "number mixed with letters"}
          [] s = 3 -> {"special character - excellent", "mixed case - strong"}]

\* C26: every DNA segment has a strength in 0..3 and a reason of that
\* strength, no reason going with any other strength; strength 0 occurs only
\* from the third character on (0-based index >= 2).
C26_ReasonFitsStrength ==
    \A segs \in segments :
        \A i \in DOMAIN segs :
            /\ segs[i].strength \in 0..3
            /\ \A s \in 0..3 : segs[i].strength = s <=> segs[i].reason \in ReasonsOf[s]
            /\ segs[i].strength = 0 => i - 1 >= 2

\* a password whose segments have all four strengths, and one with a
\* character that is repeated once
C26_Witness ==
    \E segs \in segments :
        /\ { segs[i].strength : i \in DOMAIN segs } = 0..3
        /\ \E i \in DOMAIN segs : segs[i].reason = "repeated character"

\* C27: analyzePassword sets hasSequentialNumbers iff analyzePasswordDNA
\* returns a segment with the reason "sequential number run"; the segments
\* with that reason are exactly those of the last character of a window of
\* three digits going up or down by one.
C27_SequentialAgree ==
    \A r \in characteristics, segs \in segments :
        /\ r.hasSequentialNumbers
               <=> \E i \in DOMAIN segs : segs[i].reason = "sequential number run"
        /\ \A i \in DOMAIN segs :
               segs[i].reason = "sequential number run"
                   <=> (i >= 3 /\ ClaimRun(password, i - 2))

\* both calls made on a password with a descending run that is also a
\* reversed keyboard window, and on one with a run after a repeated digit
C27_Witness ==
    \E r \in characteristics, segs \in segments :
        /\ r.hasSequentialNumbers
        /\ \E i \in DOMAIN segs :
               /\ segs[i].reason = "sequential number run"
               /\ i >= 3 /\ ClaimKeys(password, i, -1)
        /\ \E i \in DOMAIN segs : segs[i].reason = "repeated character"

\* C28: a result with isCommon has a score of at most 60, so it is below the
\* survival threshold: not alive whatever the breach count.
C28_CommonAtMost60 ==
    \A r \in characteristics :
        r.isCommon =>
            /\ r.strengthScore <= 60
            /\ \A bc \in 0..1 : ~IsAlive(r.strengthScore, bc)

\* a common password of eight characters with all four character classes,
\* and no other penalty: the highest score a common password of the lexicon
\* gets
C28_Witness ==
    \E r \in characteristics :
        /\ r.isCommon /\ TypesUsed(r) = 4 /\ r.length = 8
        /\ ~r.hasKeyboardPattern /\ ~r.hasRepeatingChars /\ ~r.hasSequentialNumbers
        /\ r.strengthScore = 52

\* the request of key k that opened the window in which its b-th request
\* was counted: the first request, or the latest one that came after the
\* reset time of the window before it
RECURSIVE ClaimOpener(_, _)
ClaimOpener(k, b) ==
    IF b = 1 THEN 1
    ELSE LET o == ClaimOpener(k, b - 1)
         IN  IF answered[k][b].time > answered[k][o].time + 60000 THEN b ELSE o

\* C29: of the requests of one key counted in one window, the first 10 are
\* accepted and all later ones rejected; the key's entry counts every request
\* of the window, rejected ones too, and keeps the reset time the window's
\* first request gave it; the first request after the reset time opens a new
\* window with count 1; an entry depends on the requests of its key only.
C29_FirstTenPerWindow ==
    /\ DOMAIN map = DOMAIN answered
    /\ \A k \in DOMAIN answered :
           /\ answered[k] # <<>>
           /\ \A b \in DOMAIN answered[k] :
                  answered[k][b].status # 429 <=> b - ClaimOpener(k, b) + 1 <= 10
           /\ LET last == Len(answered[k])
                  o    == ClaimOpener(k, last)
              IN  map[k] = [count     |-> last - o + 1,
                            resetTime |-> answered[k][o].time + 60000]

\* ten requests of a key accepted and the eleventh rejected in one window,
\* then a new window opened by the first request after the reset time
C29_Witness ==
    \E k \in DOMAIN answered :
        /\ Len(answered[k]) = 12
        /\ answered[k][11].status = 429
        /\ answered[k][12].status # 429 /\ answered[k][12].time = 60001
        /\ map[k] = [count |-> 1, resetTime |-> 120001]

\* the result of isRateLimited for the b-th request of key k when the b - 1
\* requests before it were handled on a map that is never swept
RECURSIVE ClaimUnswept(_, _)
ClaimUnswept(k, b) ==
    isRateLimited(checkPasswordLimiter,
                  IF b = 1 THEN <<>> ELSE ClaimUnswept(k, b - 1).map,
                  k, answered[k][b].time)

\* C30: with the cleanup running at any moments between the requests, every
\* request gets the answer it gets when the map is never swept; an entry
\* still in the map is the one of the unswept run, and an entry that is gone
\* had expired.
C30_SweepChangesNoAnswer ==
    \A k \in DOMAIN answered :
        /\ answered[k] # <<>>
        /\ \A b \in DOMAIN answered[k] :
               answered[k][b].status = 429 <=> ClaimUnswept(k, b).limited
        /\ LET entry == ClaimUnswept(k, Len(answered[k])).map[k]
           IN  IF k \in DOMAIN map THEN map[k] = entry
               ELSE now > entry.resetTime

\* the entry of a key that was being limited swept after its window, and
\* the other key's request at that time counted in a new window
C30_Witness ==
    \E k \in DOMAIN answered, other \in DOMAIN answered :
        /\ other \notin DOMAIN map
        /\ Len(answered[other]) = 11
        /\ answered[other][11].status = 429
        /\ k \in DOMAIN map
        /\ map[k] = [count |-> 1, resetTime |-> 120001]

============================================================================
